---- MODULE Spec2Model ----
(***************************************************************************)
(* A model of guilded-rs: the request builders' `send`, the strict serde   *)
(* decoding of response envelopes and resource records, and the cursor     *)
(* paginated streams of channel messages and docs.                         *)
(*                                                                         *)
(* Time is counted in ticks; one millisecond is TicksPerMs ticks, so a     *)
(* DateTime can carry a part below millisecond precision.  An RFC3339      *)
(* text with millisecond precision and the suffix Z is represented by the  *)
(* number of milliseconds it spells.                                       *)
(***************************************************************************)
EXTENDS Integers, Sequences, FiniteSets, TLC

VARIABLES
    kind,       \* which paginated stream runs: "messages" or "docs"
    state,      \* the stream's `state` enum value
    pc,         \* position of the generator: "loop", "await", "for", "done"
    locals,     \* the bindings of the Iterating arm while its for loop runs
    inflight,   \* the request send_part has issued and is awaiting
    requests,   \* every page request issued so far, in order
    fetches,    \* the result of every send_part so far, in order
    output,     \* every item the stream has produced so far, in order
    call,       \* the last single-shot `send`: operation, response, result
    dec,        \* the last record decode: struct, JSON object, result
    eval,       \* the last call of a pure function: name, argument, result
    builder,    \* the request builder the caller holds, until it is sent
    server,     \* the collection the endpoint of this stream serves from
    parked      \* the stream of the task that is not running now

vars ==
    <<kind, state, pc, locals, inflight, requests, fetches, output, call, dec,
      eval, builder, server, parked>>

streamVars == <<kind, state, pc, locals, inflight, requests, fetches, output>>

----------------------------------------------------------------------------
(* Bounds of the model *)

MaxRequests == 3
MaxPageLen == 2
MaxItems == 4
MaxTick == 2
TicksPerMs == 2

----------------------------------------------------------------------------
(* Option and Result *)

None == <<>>
Some(x) == <<x>>
IsSome(o) == o # <<>>
Unwrap(o) == o[1]

Ok(v) == [ok |-> TRUE, value |-> v]
Err(e) == [ok |-> FALSE, error |-> e]

----------------------------------------------------------------------------
(* serde: the derived Deserialize of a struct.  A JSON object is the set   *)
(* of its keys.  A field is required unless it is an Option or carries     *)
(* #[serde(default)]; with #[serde(deny_unknown_fields)] a key that is not *)
(* declared is an error, without it the key is skipped.                    *)

Struct(declared, required, deny) ==
    [declared |-> declared, required |-> required, deny |-> deny]

Deserialize(T, obj) ==
    /\ T.required \subseteq obj
    /\ T.deny => obj \subseteq T.declared

\* A payload that is no struct (String, i32, Vec<RoleId>): it has no keys.
Scalar == Struct({}, {}, FALSE)

\* message.rs
ChatMessage ==
    Struct({"id", "type", "serverId", "channelId", "content", "embeds",
            "replyMessageIds", "isPrivate", "createdAt", "createdBy",
            "createdByWebhookId", "updatedAt"},
           {"id", "type", "content", "createdAt"}, TRUE)
ChatEmbedFooter == Struct({"icon_url", "text"}, {"text"}, TRUE)
ChatEmbedThumbnail == Struct({"url"}, {"url"}, TRUE)
ChatEmbedImage == Struct({"url"}, {"url"}, TRUE)
ChatEmbedAuthor == Struct({"name", "url", "icon_url"}, {}, TRUE)
ChatEmbedField == Struct({"name", "value", "inline"}, {"name", "value"}, TRUE)
ChatEmbed ==
    Struct({"title", "description", "url", "color", "footer", "timestamp",
            "thumbnail", "image", "author", "fields"}, {}, TRUE)

\* channel.rs
ServerChannel ==
    Struct({"id", "type", "name", "topic", "createdAt", "createdBy",
            "updatedAt", "serverId", "parentId", "categoryId", "groupId",
            "isPublic", "archivedBy", "archivedAt"},
           {"id", "type", "name", "createdAt", "createdBy", "serverId",
            "groupId"}, TRUE)

\* docs.rs
Doc ==
    Struct({"id", "serverId", "channelId", "title", "content", "createdAt",
            "createdBy", "updatedAt", "updatedBy"},
           {"id", "serverId", "channelId", "title", "content", "createdAt",
            "createdBy"}, TRUE)

\* list.rs
ListItem ==
    Struct({"id", "serverId", "channelId", "message", "createdAt",
            "createdBy", "createdByWebHook", "updatedAt", "updatedBy",
            "parentListItemId", "completedAt", "completedBy", "note"},
           {"id", "serverId", "channelId", "message", "createdAt",
            "createdBy"}, TRUE)
ListNote ==
    Struct({"createdAt", "createdBy", "updatedAt", "updatedBy", "content"},
           {"createdAt", "createdBy", "content"}, TRUE)
ListItemSummary ==
    Struct({"id", "serverId", "channelId", "createdAt", "createdBy",
            "createdByWebhookId", "updatedAt", "updatedBy",
            "parentListItemId", "completedAt", "completedBy", "note"},
           {"id", "serverId", "channelId", "createdAt", "createdBy"}, TRUE)
ListNoteSummary ==
    Struct({"createdAt", "createdBy", "updatedAt", "updatedBy"},
           {"createdAt", "createdBy"}, TRUE)

\* forums.rs
ForumThread ==
    Struct({"id", "serverId", "channelId", "title", "content", "createdAt",
            "createdBy", "createdByWebhookId", "updatedAt"},
           {"id", "serverId", "channelId", "createdAt", "createdBy"}, TRUE)

\* bans.rs
ServerMemberBan ==
    Struct({"user", "reason", "createdBy", "createdAt"},
           {"user", "createdBy", "createdAt"}, TRUE)

\* member.rs
User ==
    Struct({"id", "user_type", "name", "avatar", "banner", "createdAt"},
           {"id", "name", "createdAt"}, TRUE)
ServerMember ==
    Struct({"user", "roleIds", "nickname", "joinedAt"},
           {"user", "roleIds", "joinedAt"}, TRUE)
UserSummary == Struct({"id", "type", "name", "avatar"}, {"id", "name"}, TRUE)
ServerMemberSummary == Struct({"user", "roleIds"}, {"user", "roleIds"}, TRUE)

\* reactions.rs: Reaction carries no deny_unknown_fields attribute
Reaction ==
    Struct({"id", "serverId", "createdAt", "createdBy", "createdByWebhookId"},
           {"id", "createdAt", "createdBy"}, FALSE)

\* The resource records, by name.
Records ==
    [ChatMessage |-> ChatMessage, ChatEmbedFooter |-> ChatEmbedFooter,
     ChatEmbedThumbnail |-> ChatEmbedThumbnail,
     ChatEmbedImage |-> ChatEmbedImage, ChatEmbedAuthor |-> ChatEmbedAuthor,
     ChatEmbedField |-> ChatEmbedField, ChatEmbed |-> ChatEmbed,
     ServerChannel |-> ServerChannel, Doc |-> Doc, ListItem |-> ListItem,
     ListNote |-> ListNote, ListItemSummary |-> ListItemSummary,
     ListNoteSummary |-> ListNoteSummary, ForumThread |-> ForumThread,
     ServerMemberBan |-> ServerMemberBan, User |-> User,
     ServerMember |-> ServerMember, UserSummary |-> UserSummary,
     ServerMemberSummary |-> ServerMemberSummary, Reaction |-> Reaction]

----------------------------------------------------------------------------
(* Response envelopes: a struct with one field that holds the payload.     *)

Envelope(key, deny, payload) ==
    [declared |-> {key}, required |-> {key}, deny |-> deny,
     payload |-> payload]

\* message.rs
CreateMessageResponse == Envelope("message", TRUE, ChatMessage)
GetChannelMessagesResponse == Envelope("messages", TRUE, ChatMessage)
GetMessageResponse == Envelope("message", TRUE, ChatMessage)
UpdateMessageResponse == Envelope("message", TRUE, ChatMessage)
\* channel.rs
ServerChannelResponse == Envelope("channel", TRUE, ServerChannel)
\* docs.rs
CreateDocResponse == Envelope("doc", TRUE, Doc)
GetDocsResponse == Envelope("docs", TRUE, Doc)
GetDocResponse == Envelope("doc", TRUE, Doc)
UpdateDocResponse == Envelope("doc", FALSE, Doc)
\* forums.rs
CreateThreadResponse == Envelope("forumThread", TRUE, ForumThread)
\* list.rs
CreateListItemResponse == Envelope("listItem", FALSE, ListItem)
GetListItemsResponse == Envelope("listItems", TRUE, ListItemSummary)
GetListItemResponse == Envelope("listItem", TRUE, ListItem)
UpdateListItemResponse == Envelope("listItem", TRUE, ListItem)
\* bans.rs
ServerBanResponse == Envelope("serverMemberBan", TRUE, ServerMemberBan)
GetServerBanResponse == Envelope("serverMemberBan", FALSE, ServerMemberBan)
GetServerBansResponse == Envelope("serverMemberBans", FALSE, ServerMemberBan)
\* member.rs
UpdateNicknameResponse == Envelope("nickname", TRUE, Scalar)
GetMemberResponse == Envelope("member", TRUE, ServerMember)
GetMembersResponse == Envelope("members", TRUE, ServerMemberSummary)
\* roles.rs
GetMemberRolesResponse == Envelope("roleIds", FALSE, Scalar)
\* xp.rs
MemberXpResponse == Envelope("total", FALSE, Scalar)

----------------------------------------------------------------------------
(* reqwest: a response is [net, status, body].  net = "error" stands for a *)
(* request that got no response.  The body is [json, keys, fields, items]: *)
(* whether it parses as JSON, the keys of the top-level object, the keys   *)
(* of the payload object(s), and the payload list of a list endpoint.      *)

\* crate::error::Error, #[from] reqwest::Error
From_reqwest(e) == [variant |-> "ReqwestError", source |-> e]

\* crate::error::Error, #[from] serde_json::Error
From_serde_json(e) == [variant |-> "JsonError", source |-> e]

\* Client::execute(request).await
execute(resp) ==
    IF resp.net = "error" THEN Err("request") ELSE Ok(resp)

\* Response::error_for_status(): an error for a 4xx or 5xx status
error_for_status(resp) ==
    IF resp.status >= 400 /\ resp.status <= 599 THEN Err("status")
    ELSE Ok(resp)

\* Response::json::<E>().await and the move of the envelope's one field
json(resp, E) ==
    IF /\ resp.body.json
       /\ Deserialize(E, resp.body.keys)
       /\ Deserialize(E.payload, resp.body.fields)
    THEN Ok([fields |-> resp.body.fields \cap E.payload.declared,
             items |-> resp.body.items])
    ELSE Err("decode")

\* execute(request).await?.error_for_status()?; response.json().await?
SendDecoding(resp, E) ==
    LET sent == execute(resp) IN
    IF ~sent.ok THEN Err(From_reqwest(sent.error)) ELSE
    LET checked == error_for_status(sent.value) IN
    IF ~checked.ok THEN Err(From_reqwest(checked.error)) ELSE
    LET decoded == json(checked.value, E) IN
    IF ~decoded.ok THEN Err(From_reqwest(decoded.error)) ELSE
    Ok(decoded.value)

\* execute(request).await?.error_for_status()?; Ok(())
SendChecked(resp) ==
    LET sent == execute(resp) IN
    IF ~sent.ok THEN Err(From_reqwest(sent.error)) ELSE
    LET checked == error_for_status(sent.value) IN
    IF ~checked.ok THEN Err(From_reqwest(checked.error)) ELSE
    Ok("unit")

\* execute(request).await?; Ok(())
SendUnchecked(resp) ==
    LET sent == execute(resp) IN
    IF ~sent.ok THEN Err(From_reqwest(sent.error)) ELSE
    Ok("unit")

----------------------------------------------------------------------------
(* The single-shot operations *)

\* bans.rs
\* Mutant: the status of the response is not looked at.
ServerBanRequest_send_unchecked(resp) ==
    LET sent == execute(resp) IN
    IF ~sent.ok THEN Err(From_reqwest(sent.error)) ELSE
    LET decoded == json(sent.value, ServerBanResponse) IN
    IF ~decoded.ok THEN Err(From_reqwest(decoded.error)) ELSE
    Ok(decoded.value)
ServerBanRequest_send(resp) == SendDecoding(resp, ServerBanResponse)
GetServerBanRequest_send(resp) == SendDecoding(resp, GetServerBanResponse)
DeleteServerBanRequest_send(resp) == SendChecked(resp)
GetServerBansStream_fetch(resp) == SendDecoding(resp, GetServerBansResponse)
\* channel.rs
CreateChannelRequest_send(resp) == SendDecoding(resp, ServerChannelResponse)
GetChannelRequest_send(resp) == SendDecoding(resp, ServerChannelResponse)
DeleteChannelRequest_send(resp) == SendChecked(resp)
\* docs.rs
CreateDocRequest_send(resp) == SendDecoding(resp, CreateDocResponse)
GetDocsRequest_send_part(resp) == SendDecoding(resp, GetDocsResponse)
GetDocRequest_send(resp) == SendDecoding(resp, GetDocResponse)
UpdateDocRequest_send(resp) == SendDecoding(resp, UpdateDocResponse)
DeleteDocRequest_send(resp) == SendUnchecked(resp)
\* forums.rs
CreateThreadRequest_send(resp) == SendDecoding(resp, CreateThreadResponse)
\* groups.rs
AddGroupMemberRequest_send(resp) == SendChecked(resp)
DeleteGroupMemberRequest_send(resp) == SendChecked(resp)
\* list.rs
CreateListItemRequest_send(resp) == SendDecoding(resp, CreateListItemResponse)
ListItemsStream_fetch(resp) == SendDecoding(resp, GetListItemsResponse)
GetListItemRequest_send(resp) == SendDecoding(resp, GetListItemResponse)
UpdateListItemRequest_send(resp) == SendDecoding(resp, UpdateListItemResponse)
DeleteListItemRequest_send(resp) == SendChecked(resp)
CompleteListItemRequest_send(resp) == SendChecked(resp)
UncompleteListItemRequest_send(resp) == SendChecked(resp)
\* member.rs
UpdateNicknameRequest_send(resp) == SendDecoding(resp, UpdateNicknameResponse)
DeleteNicknameRequest_send(resp) == SendChecked(resp)
GetMemberRequest_send(resp) == SendDecoding(resp, GetMemberResponse)
KickMemberRequest_send(resp) == SendChecked(resp)
MemberStream_fetch(resp) == SendDecoding(resp, GetMembersResponse)
\* message.rs: CreateMessageRequest checks the status with
\* error_for_status_ref and returns the error after printing the body
CreateMessageRequest_send(resp) ==
    LET sent == execute(resp) IN
    IF ~sent.ok THEN Err(From_reqwest(sent.error)) ELSE
    LET checked == error_for_status(sent.value) IN
    IF ~checked.ok THEN Err(From_reqwest(checked.error)) ELSE
    LET decoded == json(sent.value, CreateMessageResponse) IN
    IF ~decoded.ok THEN Err(From_reqwest(decoded.error)) ELSE
    Ok(decoded.value)
GetChannelMessagesRequest_send_part(resp) ==
    SendDecoding(resp, GetChannelMessagesResponse)
GetMessageRequest_send(resp) == SendDecoding(resp, GetMessageResponse)
UpdateMessageRequest_send(resp) == SendDecoding(resp, UpdateMessageResponse)
DeleteMessageRequest_send(resp) == SendChecked(resp)
\* reactions.rs
AddReactionRequest_send(resp) == SendChecked(resp)
\* roles.rs
AssignRoleRequest_send(resp) == SendChecked(resp)
RemoveRoleRequest_send(resp) == SendUnchecked(resp)
GetMemberRolesRequest_send(resp) == SendDecoding(resp, GetMemberRolesResponse)
\* xp.rs
MemberXpRequest_send(resp) == SendDecoding(resp, MemberXpResponse)
RoleXpRequest_send(resp) == SendChecked(resp)

\* Every operation with the envelope it decodes, if it reads the body, and
\* whether it is a builder's single-shot `send` (the others fetch for a
\* stream).
Op(name, envelope, single) ==
    [name |-> name, envelope |-> envelope, single |-> single]

Operations ==
    { Op("ServerBanRequest", Some(ServerBanResponse), TRUE),
      Op("GetServerBanRequest", Some(GetServerBanResponse), TRUE),
      Op("DeleteServerBanRequest", None, TRUE),
      Op("GetServerBansRequest", Some(GetServerBansResponse), FALSE),
      Op("CreateChannelRequest", Some(ServerChannelResponse), TRUE),
      Op("GetChannelRequest", Some(ServerChannelResponse), TRUE),
      Op("DeleteChannelRequest", None, TRUE),
      Op("CreateDocRequest", Some(CreateDocResponse), TRUE),
      Op("GetDocsRequest", Some(GetDocsResponse), FALSE),
      Op("GetDocRequest", Some(GetDocResponse), TRUE),
      Op("UpdateDocRequest", Some(UpdateDocResponse), TRUE),
      Op("DeleteDocRequest", None, TRUE),
      Op("CreateThreadRequest", Some(CreateThreadResponse), TRUE),
      Op("AddGroupMemberRequest", None, TRUE),
      Op("DeleteGroupMemberRequest", None, TRUE),
      Op("CreateListItemRequest", Some(CreateListItemResponse), TRUE),
      Op("GetListItemsRequest", Some(GetListItemsResponse), FALSE),
      Op("GetListItemRequest", Some(GetListItemResponse), TRUE),
      Op("UpdateListItemRequest", Some(UpdateListItemResponse), TRUE),
      Op("DeleteListItemRequest", None, TRUE),
      Op("CompleteListItemRequest", None, TRUE),
      Op("UncompleteListItemRequest", None, TRUE),
      Op("UpdateNicknameRequest", Some(UpdateNicknameResponse), TRUE),
      Op("DeleteNicknameRequest", None, TRUE),
      Op("GetMemberRequest", Some(GetMemberResponse), TRUE),
      Op("KickMemberRequest", None, TRUE),
      Op("GetMembersRequest", Some(GetMembersResponse), FALSE),
      Op("CreateMessageRequest", Some(CreateMessageResponse), TRUE),
      Op("GetChannelMessagesRequest", Some(GetChannelMessagesResponse), FALSE),
      Op("GetMessageRequest", Some(GetMessageResponse), TRUE),
      Op("UpdateMessageRequest", Some(UpdateMessageResponse), TRUE),
      Op("DeleteMessageRequest", None, TRUE),
      Op("AddReactionRequest", None, TRUE),
      Op("AssignRoleRequest", None, TRUE),
      Op("RemoveRoleRequest", None, TRUE),
      Op("GetMemberRolesRequest", Some(GetMemberRolesResponse), TRUE),
      Op("MemberXpRequest", Some(MemberXpResponse), TRUE),
      Op("RoleXpRequest", None, TRUE) }

\* The result the operation named `name` computes from the response.
Send(name, resp) ==
    CASE name = "ServerBanRequest" -> ServerBanRequest_send(resp)
      [] name = "GetServerBanRequest" -> GetServerBanRequest_send(resp)
      [] name = "DeleteServerBanRequest" -> DeleteServerBanRequest_send(resp)
      [] name = "GetServerBansRequest" -> GetServerBansStream_fetch(resp)
      [] name = "CreateChannelRequest" -> CreateChannelRequest_send(resp)
      [] name = "GetChannelRequest" -> GetChannelRequest_send(resp)
      [] name = "DeleteChannelRequest" -> DeleteChannelRequest_send(resp)
      [] name = "CreateDocRequest" -> CreateDocRequest_send(resp)
      [] name = "GetDocsRequest" -> GetDocsRequest_send_part(resp)
      [] name = "GetDocRequest" -> GetDocRequest_send(resp)
      [] name = "UpdateDocRequest" -> UpdateDocRequest_send(resp)
      [] name = "DeleteDocRequest" -> DeleteDocRequest_send(resp)
      [] name = "CreateThreadRequest" -> CreateThreadRequest_send(resp)
      [] name = "AddGroupMemberRequest" -> AddGroupMemberRequest_send(resp)
      [] name = "DeleteGroupMemberRequest" ->
            DeleteGroupMemberRequest_send(resp)
      [] name = "CreateListItemRequest" -> CreateListItemRequest_send(resp)
      [] name = "GetListItemsRequest" -> ListItemsStream_fetch(resp)
      [] name = "GetListItemRequest" -> GetListItemRequest_send(resp)
      [] name = "UpdateListItemRequest" -> UpdateListItemRequest_send(resp)
      [] name = "DeleteListItemRequest" -> DeleteListItemRequest_send(resp)
      [] name = "CompleteListItemRequest" ->
            CompleteListItemRequest_send(resp)
      [] name = "UncompleteListItemRequest" ->
            UncompleteListItemRequest_send(resp)
      [] name = "UpdateNicknameRequest" -> UpdateNicknameRequest_send(resp)
      [] name = "DeleteNicknameRequest" -> DeleteNicknameRequest_send(resp)
      [] name = "GetMemberRequest" -> GetMemberRequest_send(resp)
      [] name = "KickMemberRequest" -> KickMemberRequest_send(resp)
      [] name = "GetMembersRequest" -> MemberStream_fetch(resp)
      [] name = "CreateMessageRequest" -> CreateMessageRequest_send(resp)
      [] name = "GetChannelMessagesRequest" ->
            GetChannelMessagesRequest_send_part(resp)
      [] name = "GetMessageRequest" -> GetMessageRequest_send(resp)
      [] name = "UpdateMessageRequest" -> UpdateMessageRequest_send(resp)
      [] name = "DeleteMessageRequest" -> DeleteMessageRequest_send(resp)
      [] name = "AddReactionRequest" -> AddReactionRequest_send(resp)
      [] name = "AssignRoleRequest" -> AssignRoleRequest_send(resp)
      [] name = "RemoveRoleRequest" -> RemoveRoleRequest_send(resp)
      [] name = "GetMemberRolesRequest" -> GetMemberRolesRequest_send(resp)
      [] name = "MemberXpRequest" -> MemberXpRequest_send(resp)
      [] name = "RoleXpRequest" -> RoleXpRequest_send(resp)

----------------------------------------------------------------------------
(* chrono: a DateTime is [instant, offset], the instant in ticks since the *)
(* epoch and the zone's offset from UTC in ticks.  The RFC3339 text with   *)
(* millisecond precision is [millis, zone]: the local time in whole        *)
(* milliseconds and the zone's offset, 0 being written Z.                  *)

Utc(t) == [instant |-> t, offset |-> 0]

\* Variant: the caller's zone is kept.
with_timezone_kept(dt) == dt

\* DateTime::with_timezone(&Utc)
with_timezone_Utc(dt) == [instant |-> dt.instant, offset |-> 0]

\* Variant: the part below a millisecond is rounded up.
to_rfc3339_opts_Millis_rounds_up(dt) ==
    [millis |-> -((-(dt.instant + dt.offset)) \div TicksPerMs),
     zone |-> dt.offset]

\* DateTime::to_rfc3339_opts(SecondsFormat::Millis, true)
to_rfc3339_opts_Millis(dt) ==
    [millis |-> (dt.instant + dt.offset) \div TicksPerMs, zone |-> dt.offset]

\* str::parse::<DateTime<Utc>>()
parse_DateTime_Utc(text) ==
    [instant |-> text.millis * TicksPerMs - text.zone, offset |-> 0]

----------------------------------------------------------------------------
(* GuildedClient::new.  A text is the sequence of its bytes; a token is    *)
(* made of letters, spaces, tabs, line feeds and DEL bytes.                *)

MaxTokenLen == 2

TokenBytes == {"a", " ", "\t", "\n", "DEL"}

Tokens == UNION { [1..n -> TokenBytes] : n \in 0..MaxTokenLen }

\* format!("Bearer {token}")
format_Bearer(token) == <<"B", "e", "a", "r", "e", "r", " ">> \o token

\* http::HeaderValue::from_str: a control byte other than tab is refused
HeaderValue_from_str(text) ==
    IF \A i \in 1..Len(text) : text[i] \notin {"\n", "DEL"}
    THEN Ok([bytes |-> text])
    ELSE Err("InvalidHeaderValue")

\* Variant: the header is left out when its value cannot be encoded.
GuildedClient_new_lenient(token) ==
    LET value == HeaderValue_from_str(format_Bearer(token)) IN
    IF ~value.ok THEN Ok([default_headers |-> <<>>])
    ELSE Ok([default_headers |-> [AUTHORIZATION |-> value.value]])

\* `?` returns the InvalidHeaderValue; the builder's build() is taken to
\* succeed (the TLS backend initialises)
GuildedClient_new(token) ==
    LET value == HeaderValue_from_str(format_Bearer(token)) IN
    IF ~value.ok THEN Err(value.error)
    ELSE Ok([default_headers |-> [AUTHORIZATION |-> value.value]])

\* reqwest::Client::new(): a handle without default headers
Client_new == [default_headers |-> <<>>]

\* The clients of the facades built with the tokens that can be encoded
Clients(tokens) ==
    { GuildedClient_new(t).value :
        t \in { u \in tokens : GuildedClient_new(u).ok } }

\* The headers of the request that Client::execute puts on the wire
Headers(request) == request.client.default_headers

----------------------------------------------------------------------------
(* GetChannelMessagesRequest and GetDocsRequest *)

GetChannelMessagesRequest_new(client) ==
    [client |-> client, before |-> None, after |-> None, limit |-> None,
     private |-> None]

GetChannelMessagesRequest_before(req, dt) ==
    [req EXCEPT !.before = Some(to_rfc3339_opts_Millis(with_timezone_Utc(dt)))]

GetChannelMessagesRequest_after(req, dt) ==
    [req EXCEPT !.after = Some(to_rfc3339_opts_Millis(with_timezone_Utc(dt)))]

GetChannelMessagesRequest_private(req, p) ==
    [req EXCEPT !.private = Some(p)]

GetDocsRequest_new(client) ==
    [client |-> client, before |-> None, limit |-> None]

GetDocsRequest_before(req, dt) ==
    [req EXCEPT !.before = Some(to_rfc3339_opts_Millis(with_timezone_Utc(dt)))]

\* The reasons a caller gives
Reasons == {"", "spam"}

\* ServerBanRequest::new and reason
ServerBanRequest_new(client) == [client |-> client, reason |-> None]

ServerBanRequest_reason(req, r) == [req EXCEPT !.reason = Some(r)]

----------------------------------------------------------------------------
(* The stream's state enum *)

Uninitialized(request) == [tag |-> "Uninitialized", request |-> request]

ChannelMessageStream_Iterating(client, after, private, messages) ==
    [tag |-> "Iterating", client |-> client, after |-> after,
     private |-> private, messages |-> messages]

DocsStream_Iterating(client, docs) ==
    [tag |-> "Iterating", client |-> client, docs |-> docs]

Transition == [tag |-> "Transition"]

NoLocals == [tag |-> "none"]

\* No stream has been created
NoStream == [tag |-> "none"]

\* An endpoint that may answer anything
NoServer == [tag |-> "none"]

\* No second task
NoParked == [tag |-> "none"]

----------------------------------------------------------------------------
(* The remote endpoint: what it may answer to a page request.  The items   *)
(* of a page get the next free ids and any creation timestamps.            *)

EmptyBody == [json |-> FALSE, keys |-> {}, fields |-> {}, items |-> <<>>]

PageBody(E, extra, items) ==
    [json |-> TRUE, keys |-> E.declared \cup extra,
     fields |-> E.payload.declared, items |-> items]

Response(net, status, body) == [net |-> net, status |-> status, body |-> body]

RECURSIVE Concat(_)
Concat(pages) ==
    IF pages = <<>> THEN <<>> ELSE Head(pages) \o Concat(Tail(pages))

\* The pages decoded so far
Pages == [i \in 1..Len(fetches) |-> IF fetches[i].ok THEN fetches[i].value ELSE <<>>]

Served == Len(Concat(Pages))

Min(a, b) == IF a < b THEN a ELSE b

\* The creation instants of the items of a page: on a whole millisecond,
\* one tick after it, and the latest instant
PageTicks == {0, 1, MaxTick}

MessagePages ==
    UNION { { [i \in 1..n |-> [id |-> Served + i, created_at |-> Utc(ts[i])]] :
                ts \in [1..n -> PageTicks] } :
            n \in 0..Min(MaxPageLen, MaxItems - Served) }

DocPages ==
    UNION { { [i \in 1..n |-> [id |-> Served + i, created |-> Utc(ts[i])]] :
                ts \in [1..n -> PageTicks] } :
            n \in 0..Min(MaxPageLen, MaxItems - Served) }

PageResponses(E, pages) ==
    { Response("error", 0, EmptyBody),
      Response("ok", 404, EmptyBody),
      Response("ok", 500, EmptyBody),
      Response("ok", 200, EmptyBody),
      Response("ok", 200, PageBody(E, {"extra"}, <<>>)) }
    \cup { Response("ok", st, PageBody(E, {}, p)) :
             st \in {200, 300}, p \in pages }

----------------------------------------------------------------------------
(* ChannelMessageStream::iter *)

\* Variant: the first page is asked for without the caller's cursor.
ChannelMessageStream_Fetch_unsets_cursor ==
    /\ kind = "messages"
    /\ pc = "loop"
    /\ state.tag = "Uninitialized"
    /\ Len(requests) < MaxRequests
    /\ LET request == IF requests = <<>>
                      THEN [state.request EXCEPT !.before = None]
                      ELSE state.request IN
       /\ inflight' = Some(request)
       /\ requests' = Append(requests, request)
    /\ state' = Transition
    /\ locals' = [client |-> state.request.client,
                  after |-> state.request.after,
                  private |-> state.request.private]
    /\ pc' = "await"
    /\ UNCHANGED <<kind, fetches, output, call, dec, eval, builder, server,
                parked>>

\* loop head, Uninitialized arm, up to the await inside send_part
ChannelMessageStream_Fetch ==
    /\ kind = "messages"
    /\ pc = "loop"
    /\ state.tag = "Uninitialized"
    /\ Len(requests) < MaxRequests
    /\ state' = Transition
    /\ locals' = [client |-> state.request.client,
                  after |-> state.request.after,
                  private |-> state.request.private]
    /\ inflight' = Some(state.request)
    /\ requests' = Append(requests, state.request)
    /\ pc' = "await"
    /\ UNCHANGED <<kind, fetches, output, call, dec, eval, builder, server,
                parked>>

\* Mutant: a failed fetch is reported and then tried again.
ChannelMessageStream_Receive_retries(resp) ==
    /\ kind = "messages"
    /\ pc = "await"
    /\ LET result == GetChannelMessagesRequest_send_part(resp) IN
       IF result.ok
       THEN /\ state' = ChannelMessageStream_Iterating(
                            locals.client, locals.after, locals.private,
                            result.value.items)
            /\ fetches' = Append(fetches, Ok(result.value.items))
            /\ output' = output
       ELSE /\ state' = Uninitialized(Unwrap(inflight))
            /\ fetches' = Append(fetches, Err(result.error))
            /\ output' = Append(output, Err(result.error))
    /\ pc' = "loop"
    /\ inflight' = None
    /\ locals' = NoLocals
    /\ UNCHANGED <<kind, requests, call, dec, eval, builder, server, parked>>

\* Mutant: a failed fetch withdraws the items of the page before it.
ChannelMessageStream_Receive_rolls_back(resp) ==
    /\ kind = "messages"
    /\ pc = "await"
    /\ LET result == GetChannelMessagesRequest_send_part(resp) IN
       IF result.ok
       THEN /\ state' = ChannelMessageStream_Iterating(
                            locals.client, locals.after, locals.private,
                            result.value.items)
            /\ fetches' = Append(fetches, Ok(result.value.items))
            /\ output' = output
            /\ pc' = "loop"
       ELSE /\ state' = state
            /\ fetches' = Append(fetches, Err(result.error))
            /\ output' = Append(
                   SubSeq(output, 1,
                          Len(output) - (IF Pages = <<>> THEN 0
                                         ELSE Len(Pages[Len(Pages)]))),
                   Err(result.error))
            /\ pc' = "done"
    /\ inflight' = None
    /\ locals' = NoLocals
    /\ UNCHANGED <<kind, requests, call, dec, eval, builder, server, parked>>

\* send_part returns: `?` yields the error and ends the stream
ChannelMessageStream_Receive(resp) ==
    /\ kind = "messages"
    /\ pc = "await"
    /\ LET result == GetChannelMessagesRequest_send_part(resp) IN
       IF result.ok
       THEN /\ state' = ChannelMessageStream_Iterating(
                            locals.client, locals.after, locals.private,
                            result.value.items)
            /\ fetches' = Append(fetches, Ok(result.value.items))
            /\ output' = output
            /\ pc' = "loop"
       ELSE /\ state' = state
            /\ fetches' = Append(fetches, Err(result.error))
            /\ output' = Append(output, Err(result.error))
            /\ pc' = "done"
    /\ inflight' = None
    /\ locals' = NoLocals
    /\ UNCHANGED <<kind, requests, call, dec, eval, builder, server, parked>>

\* loop head, Iterating arm: the page is moved into the for loop
ChannelMessageStream_Begin ==
    /\ kind = "messages"
    /\ pc = "loop"
    /\ state.tag = "Iterating"
    /\ state' = Transition
    /\ locals' = [client |-> state.client, after |-> state.after,
                  private |-> state.private,
                  messages |-> state.messages, last_message |-> None]
    /\ pc' = "for"
    /\ UNCHANGED <<kind, inflight, requests, fetches, output, call, dec, eval, builder, server,
                parked>>

\* Mutant: the page is drained from its back.
ChannelMessageStream_Yield_from_back ==
    /\ kind = "messages"
    /\ pc = "for"
    /\ locals.messages # <<>>
    /\ LET n == Len(locals.messages)
           message == locals.messages[n] IN
       /\ locals' = [locals EXCEPT !.messages = SubSeq(locals.messages, 1, n - 1),
                                   !.last_message = Some(message.created_at)]
       /\ output' = Append(output, Ok(message))
    /\ UNCHANGED <<kind, state, pc, inflight, requests, fetches, call, dec, eval, builder, server,
                parked>>

\* Mutant: the cursor is taken from the first item of the page.
ChannelMessageStream_Yield_first_timestamp ==
    /\ kind = "messages"
    /\ pc = "for"
    /\ locals.messages # <<>>
    /\ LET message == Head(locals.messages) IN
       /\ locals' = [locals EXCEPT !.messages = Tail(locals.messages),
                                   !.last_message =
                                       IF IsSome(locals.last_message)
                                       THEN locals.last_message
                                       ELSE Some(message.created_at)]
       /\ output' = Append(output, Ok(message))
    /\ UNCHANGED <<kind, state, pc, inflight, requests, fetches, call, dec, eval, builder, server,
                parked>>

\* one turn of the for loop
ChannelMessageStream_Yield ==
    /\ kind = "messages"
    /\ pc = "for"
    /\ locals.messages # <<>>
    /\ LET message == Head(locals.messages) IN
       /\ locals' = [locals EXCEPT !.messages = Tail(locals.messages),
                                   !.last_message = Some(message.created_at)]
       /\ output' = Append(output, Ok(message))
    /\ UNCHANGED <<kind, state, pc, inflight, requests, fetches, call, dec, eval, builder, server,
                parked>>

\* Mutant: the next page is asked for through a fresh handle.
ChannelMessageStream_NextRequest_fresh_client(client, after, private, last_message) ==
    LET r0 == GetChannelMessagesRequest_before(
                  GetChannelMessagesRequest_new(Client_new), last_message)
        r1 == IF IsSome(after)
              THEN GetChannelMessagesRequest_after(
                       r0, parse_DateTime_Utc(Unwrap(after)))
              ELSE r0
    IN  IF IsSome(private)
        THEN GetChannelMessagesRequest_private(r1, Unwrap(private))
        ELSE r1

\* Variant: the next page is asked for without the caller's `after` bound.
ChannelMessageStream_NextRequest_forgets_after(client, after, private, last_message) ==
    LET r0 == GetChannelMessagesRequest_before(
                  GetChannelMessagesRequest_new(client), last_message)
    IN  IF IsSome(private)
        THEN GetChannelMessagesRequest_private(r0, Unwrap(private))
        ELSE r0

\* the request for the next page
ChannelMessageStream_NextRequest(client, after, private, last_message) ==
    LET r0 == GetChannelMessagesRequest_before(
                  GetChannelMessagesRequest_new(client), last_message)
        r1 == IF IsSome(after)
              THEN GetChannelMessagesRequest_after(
                       r0, parse_DateTime_Utc(Unwrap(after)))
              ELSE r0
    IN  IF IsSome(private)
        THEN GetChannelMessagesRequest_private(r1, Unwrap(private))
        ELSE r1

\* Mutant: the stream ends after the first page, empty or not.
ChannelMessageStream_EndPage_always_breaks ==
    /\ kind = "messages"
    /\ pc = "for"
    /\ locals.messages = <<>>
    /\ state' = state
    /\ pc' = "done"
    /\ locals' = NoLocals
    /\ UNCHANGED <<kind, inflight, requests, fetches, output, call, dec, eval, builder, server,
                parked>>

\* Variant: after an empty page the loop goes on instead of being left.
ChannelMessageStream_EndPage_continues ==
    /\ kind = "messages"
    /\ pc = "for"
    /\ locals.messages = <<>>
    /\ IF IsSome(locals.last_message)
       THEN state' = Uninitialized(ChannelMessageStream_NextRequest(
                         locals.client, locals.after, locals.private,
                         Unwrap(locals.last_message)))
       ELSE state' = state
    /\ pc' = "loop"
    /\ locals' = NoLocals
    /\ UNCHANGED <<kind, inflight, requests, fetches, output, call, dec, eval, builder, server,
                parked>>

\* after the for loop
ChannelMessageStream_EndPage ==
    /\ kind = "messages"
    /\ pc = "for"
    /\ locals.messages = <<>>
    /\ IF IsSome(locals.last_message)
       THEN /\ state' = Uninitialized(ChannelMessageStream_NextRequest(
                            locals.client, locals.after, locals.private,
                            Unwrap(locals.last_message)))
            /\ pc' = "loop"
       ELSE /\ state' = state
            /\ pc' = "done"
    /\ locals' = NoLocals
    /\ UNCHANGED <<kind, inflight, requests, fetches, output, call, dec, eval, builder, server,
                parked>>

----------------------------------------------------------------------------
(* DocsStream::iter *)

DocsStream_Fetch ==
    /\ kind = "docs"
    /\ pc = "loop"
    /\ state.tag = "Uninitialized"
    /\ Len(requests) < MaxRequests
    /\ state' = Transition
    /\ locals' = [client |-> state.request.client]
    /\ inflight' = Some(state.request)
    /\ requests' = Append(requests, state.request)
    /\ pc' = "await"
    /\ UNCHANGED <<kind, fetches, output, call, dec, eval, builder, server,
                parked>>

DocsStream_Receive(resp) ==
    /\ kind = "docs"
    /\ pc = "await"
    /\ LET result == GetDocsRequest_send_part(resp) IN
       IF result.ok
       THEN /\ state' = DocsStream_Iterating(locals.client, result.value.items)
            /\ fetches' = Append(fetches, Ok(result.value.items))
            /\ output' = output
            /\ pc' = "loop"
       ELSE /\ state' = state
            /\ fetches' = Append(fetches, Err(result.error))
            /\ output' = Append(output, Err(result.error))
            /\ pc' = "done"
    /\ inflight' = None
    /\ locals' = NoLocals
    /\ UNCHANGED <<kind, requests, call, dec, eval, builder, server, parked>>

DocsStream_Begin ==
    /\ kind = "docs"
    /\ pc = "loop"
    /\ state.tag = "Iterating"
    /\ state' = Transition
    /\ locals' = [client |-> state.client, docs |-> state.docs,
                  last_doc |-> None]
    /\ pc' = "for"
    /\ UNCHANGED <<kind, inflight, requests, fetches, output, call, dec, eval, builder, server,
                parked>>

DocsStream_Yield ==
    /\ kind = "docs"
    /\ pc = "for"
    /\ locals.docs # <<>>
    /\ LET doc == Head(locals.docs) IN
       /\ locals' = [locals EXCEPT !.docs = Tail(locals.docs),
                                   !.last_doc = Some(doc.created)]
       /\ output' = Append(output, Ok(doc))
    /\ UNCHANGED <<kind, state, pc, inflight, requests, fetches, call, dec, eval, builder, server,
                parked>>

DocsStream_NextRequest(client, last_doc) ==
    GetDocsRequest_before(GetDocsRequest_new(client), last_doc)

DocsStream_EndPage ==
    /\ kind = "docs"
    /\ pc = "for"
    /\ locals.docs = <<>>
    /\ IF IsSome(locals.last_doc)
       THEN /\ state' = Uninitialized(
                            DocsStream_NextRequest(
                                locals.client, Unwrap(locals.last_doc)))
            /\ pc' = "loop"
       ELSE /\ state' = state
            /\ pc' = "done"
    /\ locals' = NoLocals
    /\ UNCHANGED <<kind, inflight, requests, fetches, output, call, dec, eval, builder, server,
                parked>>

----------------------------------------------------------------------------
(* The caller: the request it configures before `send` *)

CallerTimes == { [instant |-> MaxTick, offset |-> o] : o \in {0, TicksPerMs} }

CallerTokens == { <<"a">>, <<"a", " ">> }

MessageRequests ==
    LET r0 == { GetChannelMessagesRequest_new(c) :
                  c \in Clients({ <<"a">> }) }
        r1 == r0 \cup { GetChannelMessagesRequest_before(r, dt) :
                          r \in r0, dt \in CallerTimes }
    IN  r1 \cup { GetChannelMessagesRequest_private(
                      GetChannelMessagesRequest_after(r, Utc(0)), TRUE) :
                    r \in r1 }

DocsRequests ==
    LET r0 == { GetDocsRequest_new(c) : c \in Clients({ <<"a">> }) }
    IN  r0 \cup { GetDocsRequest_before(r, dt) :
                   r \in r0, dt \in CallerTimes }

NoCall == [name |-> "none"]

NoDecode == [struct |-> "none"]

NoEval == [fn |-> "none"]

StreamInit ==
    /\ kind \in {"messages", "docs"}
    /\ state \in { Uninitialized(r) :
                     r \in IF kind = "messages" THEN MessageRequests
                           ELSE DocsRequests }
    /\ pc = "loop"
    /\ locals = NoLocals
    /\ inflight = None
    /\ requests = <<>>
    /\ fetches = <<>>
    /\ output = <<>>

Init ==
    /\ StreamInit
    /\ call = NoCall
    /\ dec = NoDecode
    /\ eval = NoEval
    /\ builder = None
    /\ server = NoServer
    /\ parked = NoParked

Next ==
    \/ ChannelMessageStream_Fetch
    \/ \E resp \in PageResponses(GetChannelMessagesResponse, MessagePages) :
          ChannelMessageStream_Receive(resp)
    \/ ChannelMessageStream_Begin
    \/ ChannelMessageStream_Yield
    \/ ChannelMessageStream_EndPage
    \/ DocsStream_Fetch
    \/ \E resp \in PageResponses(GetDocsResponse, DocPages) :
          DocsStream_Receive(resp)
    \/ DocsStream_Begin
    \/ DocsStream_Yield
    \/ DocsStream_EndPage

Spec == Init /\ [][Next]_vars

----------------------------------------------------------------------------
(* A remote endpoint that holds a finite collection.  The collection maps  *)
(* the id of each item to its creation instant, ids in the endpoint's own  *)
(* order, newest first.  Asked for a page, an endpoint that is             *)
(* newest_first answers with the first `limit` of the items strictly older *)
(* than the request's `before` cursor, in that order; another endpoint     *)
(* answers with any of the items strictly older than the cursor, at most   *)
(* `limit` of them, in any order.                                          *)

Collections ==
    { c \in UNION { [1..n -> 0..MaxTick] : n \in 0..(MaxRequests - 1) } :
        \A i \in DOMAIN c : \A j \in DOMAIN c : i < j => c[i] >= c[j] }

Servers ==
    { [created |-> c, limit |-> l, newest_first |-> nf] :
        c \in Collections, l \in 1..MaxPageLen, nf \in BOOLEAN }

Item(id, instant) ==
    IF kind = "messages" THEN [id |-> id, created_at |-> Utc(instant)]
    ELSE [id |-> id, created |-> Utc(instant)]

\* The ids of the items strictly older than the request's cursor
Older(request) ==
    { id \in DOMAIN server.created :
        IsSome(request.before) =>
            server.created[id]
                < parse_DateTime_Utc(Unwrap(request.before)).instant }

ServerPages(request) ==
    LET ids == Older(request)
        n == Min(server.limit, Cardinality(ids))
        orders == IF server.newest_first
                  THEN { [i \in 1..n |->
                            CHOOSE id \in ids :
                               Cardinality({ j \in ids : j < id }) = i - 1] }
                  ELSE { o \in UNION { [1..k -> ids] : k \in 0..n } :
                           \A i \in DOMAIN o : \A j \in DOMAIN o :
                              i # j => o[i] # o[j] }
    IN  { [i \in DOMAIN o |-> Item(o[i], server.created[o[i]])] : o \in orders }

ServerResponses(E) ==
    { Response("ok", 200, PageBody(E, {}, page)) :
        page \in ServerPages(Unwrap(inflight)) }

InitServer ==
    /\ StreamInit
    /\ call = NoCall
    /\ dec = NoDecode
    /\ eval = NoEval
    /\ builder = None
    /\ server \in Servers
    /\ parked = NoParked

NextServer ==
    \/ ChannelMessageStream_Fetch
    \/ /\ pc = "await"
       /\ \E resp \in ServerResponses(GetChannelMessagesResponse) :
             ChannelMessageStream_Receive(resp)
    \/ ChannelMessageStream_Begin
    \/ ChannelMessageStream_Yield
    \/ ChannelMessageStream_EndPage
    \/ DocsStream_Fetch
    \/ /\ pc = "await"
       /\ \E resp \in ServerResponses(GetDocsResponse) :
             DocsStream_Receive(resp)
    \/ DocsStream_Begin
    \/ DocsStream_Yield
    \/ DocsStream_EndPage

SpecServer == InitServer /\ [][NextServer]_vars

\* The consumer keeps polling the stream and the endpoint answers
SpecServerLive == SpecServer /\ WF_vars(NextServer)

----------------------------------------------------------------------------
(* A single-shot call: any operation, any response *)

Statuses == {200, 300, 404, 500}

\* The JSON objects tried for a struct: complete, minimal, with an
\* undeclared key, and with one field missing.
Objects(T) ==
    { T.declared, T.required, T.declared \cup {"extra"},
      T.required \cup {"extra"} }
    \cup { T.required \ {f} : f \in T.required }
    \cup { T.declared \ {f} : f \in T.declared }

Bodies(envelope) ==
    IF IsSome(envelope)
    THEN LET E == Unwrap(envelope) IN
         { EmptyBody }
         \cup { [json |-> TRUE, keys |-> k, fields |-> f, items |-> <<>>] :
                  k \in Objects(E), f \in Objects(E.payload) }
    ELSE { EmptyBody,
           [json |-> TRUE, keys |-> {}, fields |-> {}, items |-> <<>>] }

Responses(envelope) ==
    { Response("error", 0, EmptyBody) }
    \cup { Response("ok", st, b) : st \in Statuses, b \in Bodies(envelope) }

\* A facade method: the builder's `new` with a clone of the facade's handle
Builder(name, client) ==
    [op |-> name,
     request |->
        CASE name = "GetChannelMessagesRequest" ->
                GetChannelMessagesRequest_new(client)
          [] name = "GetDocsRequest" -> GetDocsRequest_new(client)
          [] name = "ServerBanRequest" -> ServerBanRequest_new(client)
          [] OTHER -> [client |-> client]]

\* Variant: a call that failed is sent a second time.
Call_retries(op, resp) ==
    /\ call = NoCall
    /\ IsSome(builder)
    /\ Unwrap(builder).op = op.name
    /\ LET result == Send(op.name, resp) IN
       /\ call' = [name |-> op.name, single |-> op.single,
                   decodes |-> IsSome(op.envelope), envelope |-> op.envelope,
                   resp |-> resp, result |-> result]
       /\ requests' =
            IF result.ok THEN Append(requests, Unwrap(builder).request)
            ELSE requests \o <<Unwrap(builder).request,
                               Unwrap(builder).request>>
    /\ builder' = None
    /\ UNCHANGED <<kind, state, pc, locals, inflight, fetches, output, dec,
                   eval, server, parked>>

\* The future of `send` driven to its end: the one execute(request) of its
\* body and what the body makes of the response
Call(op, resp) ==
    /\ call = NoCall
    /\ IsSome(builder)
    /\ Unwrap(builder).op = op.name
    /\ call' = [name |-> op.name, single |-> op.single,
                decodes |-> IsSome(op.envelope), envelope |-> op.envelope,
                resp |-> resp, result |-> Send(op.name, resp)]
    /\ requests' = Append(requests, Unwrap(builder).request)
    /\ builder' = None
    /\ UNCHANGED <<kind, state, pc, locals, inflight, fetches, output, dec,
                   eval, server, parked>>

InitSend ==
    /\ kind = "messages"
    /\ state = NoStream
    /\ pc = "idle"
    /\ locals = NoLocals
    /\ inflight = None
    /\ requests = <<>>
    /\ fetches = <<>>
    /\ output = <<>>
    /\ call = NoCall
    /\ dec = NoDecode
    /\ eval = NoEval
    /\ builder \in { Some(Builder(op.name, c)) :
                      op \in Operations, c \in Clients(CallerTokens) }
    /\ server = NoServer
    /\ parked = NoParked

NextSend ==
    \E op \in Operations : \E resp \in Responses(op.envelope) : Call(op, resp)

SpecSend == InitSend /\ [][NextSend]_vars

----------------------------------------------------------------------------
(* GetServerBansStream::iter, MemberStream::iter, ListItemsStream::iter:   *)
(* one request, then the items of its response.  The three bodies differ   *)
(* in the URL and the envelope only; `kind` is the builder's name.         *)

ListStreams ==
    {"GetServerBansRequest", "GetMembersRequest", "GetListItemsRequest"}

EnvelopeOf(name) ==
    Unwrap((CHOOSE op \in Operations : op.name = name).envelope)

ListPages ==
    UNION { { [i \in 1..n |-> [id |-> i, created |-> Utc(ts[i])]] :
                ts \in [1..n -> 0..MaxTick] } :
            n \in 0..MaxPageLen }

\* first poll, up to the await of execute(request)
ListStream_Fetch ==
    /\ kind \in ListStreams
    /\ pc = "start"
    /\ inflight' = Some(locals.request)
    /\ requests' = Append(requests, locals.request)
    /\ pc' = "await"
    /\ UNCHANGED <<kind, state, locals, fetches, output, call, dec, eval,
                   builder, server, parked>>

\* execute().await?.error_for_status()?; response.json().await?
ListStream_Receive(resp) ==
    /\ kind \in ListStreams
    /\ pc = "await"
    /\ LET result == Send(kind, resp) IN
       IF result.ok
       THEN /\ locals' = [items |-> result.value.items]
            /\ fetches' = Append(fetches, Ok(result.value.items))
            /\ output' = output
            /\ pc' = "for"
       ELSE /\ locals' = NoLocals
            /\ fetches' = Append(fetches, Err(result.error))
            /\ output' = Append(output, Err(result.error))
            /\ pc' = "done"
    /\ inflight' = None
    /\ UNCHANGED <<kind, state, requests, call, dec, eval, builder, server,
                parked>>

\* one turn of the for loop
ListStream_Yield ==
    /\ kind \in ListStreams
    /\ pc = "for"
    /\ locals.items # <<>>
    /\ locals' = [items |-> Tail(locals.items)]
    /\ output' = Append(output, Ok(Head(locals.items)))
    /\ UNCHANGED <<kind, state, pc, inflight, requests, fetches, call, dec,
                   eval, builder, server, parked>>

\* Variant: a page that was not empty is followed by another request.
ListStream_End_asks_again ==
    /\ kind \in ListStreams
    /\ pc = "for"
    /\ locals.items = <<>>
    /\ IF fetches[Len(fetches)].value # <<>>
       THEN /\ pc' = "start"
            /\ locals' = [request |-> requests[1]]
       ELSE /\ pc' = "done"
            /\ locals' = NoLocals
    /\ UNCHANGED <<kind, state, inflight, requests, fetches, output, call,
                   dec, eval, builder, server, parked>>

\* the end of the stream! block
ListStream_End ==
    /\ kind \in ListStreams
    /\ pc = "for"
    /\ locals.items = <<>>
    /\ pc' = "done"
    /\ locals' = NoLocals
    /\ UNCHANGED <<kind, state, inflight, requests, fetches, output, call,
                   dec, eval, builder, server, parked>>

----------------------------------------------------------------------------
(* The caller's chain: a facade method, setters, `send`; then a            *)
(* single-shot call or a list stream to its end, or a paginated stream to  *)
(* its first request.                                                      *)

Caller_method(op, client) ==
    /\ builder = None
    /\ call = NoCall
    /\ pc = "idle"
    /\ builder' = Some(Builder(op.name, client))
    /\ UNCHANGED <<streamVars, call, dec, eval, server, parked>>

\* panic!: the thread unwinds and nothing is returned to the caller
Panic(message) == [ok |-> FALSE, panic |-> message]

\* GuildedClient::get_channels: unimplemented!()
GuildedClient_get_channels(client) == Panic("not implemented")

Caller_get_channels(client) ==
    /\ builder = None
    /\ call = NoCall
    /\ pc = "idle"
    /\ call' = [name |-> "get_channels",
                result |-> GuildedClient_get_channels(client)]
    /\ UNCHANGED <<streamVars, dec, eval, builder, server, parked>>

Caller_before(dt) ==
    /\ IsSome(builder)
    /\ LET b == Unwrap(builder) IN
       /\ b.op \in {"GetChannelMessagesRequest", "GetDocsRequest"}
       /\ builder' = Some([b EXCEPT !.request =
             IF b.op = "GetDocsRequest"
             THEN GetDocsRequest_before(b.request, dt)
             ELSE GetChannelMessagesRequest_before(b.request, dt)])
    /\ UNCHANGED <<streamVars, call, dec, eval, server, parked>>

Caller_after(dt) ==
    /\ IsSome(builder)
    /\ LET b == Unwrap(builder) IN
       /\ b.op = "GetChannelMessagesRequest"
       /\ builder' = Some([b EXCEPT !.request =
             GetChannelMessagesRequest_after(b.request, dt)])
    /\ UNCHANGED <<streamVars, call, dec, eval, server, parked>>

Caller_private(p) ==
    /\ IsSome(builder)
    /\ LET b == Unwrap(builder) IN
       /\ b.op = "GetChannelMessagesRequest"
       /\ builder' = Some([b EXCEPT !.request =
             GetChannelMessagesRequest_private(b.request, p)])
    /\ UNCHANGED <<streamVars, call, dec, eval, server, parked>>

Caller_reason(r) ==
    /\ IsSome(builder)
    /\ LET b == Unwrap(builder) IN
       /\ b.op = "ServerBanRequest"
       /\ builder' = Some([b EXCEPT !.request =
             ServerBanRequest_reason(b.request, r)])
    /\ UNCHANGED <<streamVars, call, dec, eval, server, parked>>

\* Variant: `send` issues the first request before the stream is polled.
Caller_send_stream_eager ==
    /\ IsSome(builder)
    /\ LET b == Unwrap(builder) IN
       /\ b.op \in ListStreams
              \cup {"GetChannelMessagesRequest", "GetDocsRequest"}
       /\ IF b.op \in ListStreams
          THEN /\ kind' = b.op
               /\ state' = state
               /\ pc' = "start"
               /\ locals' = [request |-> b.request]
          ELSE /\ kind' = IF b.op = "GetDocsRequest" THEN "docs"
                          ELSE "messages"
               /\ state' = Uninitialized(b.request)
               /\ pc' = "loop"
               /\ locals' = NoLocals
       /\ requests' = Append(requests, b.request)
    /\ builder' = None
    /\ UNCHANGED <<inflight, fetches, output, call, dec, eval, server,
                parked>>

\* `send` of a stream-returning builder: the stream, not yet polled
Caller_send_stream ==
    /\ IsSome(builder)
    /\ LET b == Unwrap(builder) IN
       /\ b.op \in ListStreams
              \cup {"GetChannelMessagesRequest", "GetDocsRequest"}
       /\ IF b.op \in ListStreams
          THEN /\ kind' = b.op
               /\ state' = state
               /\ pc' = "start"
               /\ locals' = [request |-> b.request]
          ELSE /\ kind' = IF b.op = "GetDocsRequest" THEN "docs"
                          ELSE "messages"
               /\ state' = Uninitialized(b.request)
               /\ pc' = "loop"
               /\ locals' = NoLocals
    /\ builder' = None
    /\ UNCHANGED <<inflight, requests, fetches, output, call, dec, eval, server,
                parked>>

InitCaller ==
    /\ kind = "messages"
    /\ state = NoStream
    /\ pc = "idle"
    /\ locals = NoLocals
    /\ inflight = None
    /\ requests = <<>>
    /\ fetches = <<>>
    /\ output = <<>>
    /\ call = NoCall
    /\ dec = NoDecode
    /\ eval = NoEval
    /\ builder = None
    /\ server = NoServer
    /\ parked = NoParked

NextCaller ==
    \/ \E op \in Operations : \E client \in Clients(CallerTokens) :
          Caller_method(op, client)
    \/ \E client \in Clients(CallerTokens) : Caller_get_channels(client)
    \/ \E dt \in CallerTimes : Caller_before(dt)
    \/ \E dt \in CallerTimes : Caller_after(dt)
    \/ \E p \in BOOLEAN : Caller_private(p)
    \/ \E r \in Reasons : Caller_reason(r)
    \/ Caller_send_stream
    \/ \E op \in { o \in Operations : o.single } :
          \E resp \in Responses(op.envelope) : Call(op, resp)
    \/ ChannelMessageStream_Fetch
    \/ DocsStream_Fetch
    \/ ListStream_Fetch
    \/ /\ kind \in ListStreams
       /\ \E resp \in PageResponses(EnvelopeOf(kind), ListPages) :
             ListStream_Receive(resp)
    \/ ListStream_Yield
    \/ ListStream_End

SpecCaller == InitCaller /\ [][NextCaller]_vars

----------------------------------------------------------------------------
(* Two tasks over clones of one transport handle.  One task runs at a      *)
(* time; the stream of the other is parked.  The tasks may be switched     *)
(* between any two steps.  A task is a paginated stream with the endpoint  *)
(* of its channel, or the caller of a single-shot `send`.                  *)

Task(k, st, p, l, i, r, f, o, srv) ==
    [kind |-> k, state |-> st, pc |-> p, locals |-> l, inflight |-> i,
     requests |-> r, fetches |-> f, output |-> o, server |-> srv]

Running ==
    Task(kind, state, pc, locals, inflight, requests, fetches, output, server)

\* Variant: the task that is switched in takes over the pending page request
\* of the task that is switched out.
Switch_shares_request ==
    /\ parked # NoParked
    /\ kind' = parked.kind
    /\ state' = IF state.tag = "Uninitialized"
                     /\ parked.state.tag = "Uninitialized"
                     /\ parked.kind = kind
                THEN state ELSE parked.state
    /\ pc' = parked.pc
    /\ locals' = parked.locals
    /\ inflight' = parked.inflight
    /\ requests' = parked.requests
    /\ fetches' = parked.fetches
    /\ output' = parked.output
    /\ server' = parked.server
    /\ parked' = Running
    /\ UNCHANGED <<call, dec, eval, builder>>

\* the executor polls the other task
Switch ==
    /\ parked # NoParked
    /\ kind' = parked.kind
    /\ state' = parked.state
    /\ pc' = parked.pc
    /\ locals' = parked.locals
    /\ inflight' = parked.inflight
    /\ requests' = parked.requests
    /\ fetches' = parked.fetches
    /\ output' = parked.output
    /\ server' = parked.server
    /\ parked' = Running
    /\ UNCHANGED <<call, dec, eval, builder>>

PairClient == CHOOSE c \in Clients({ <<"a">> }) : TRUE

PairServers ==
    { [created |-> c, limit |-> 1, newest_first |-> TRUE] :
        c \in { <<TicksPerMs, 0>>, <<0, 0>>, <<1>> } }

\* The second task: a stream of messages or docs, or the caller of a send
PairTasks ==
    { Task(k, Uninitialized(r), "loop", NoLocals, None, <<>>, <<>>, <<>>, srv) :
        k \in {"messages", "docs"},
        r \in { GetChannelMessagesRequest_new(PairClient),
                GetDocsRequest_new(PairClient) },
        srv \in PairServers }
    \cup { Task("messages", NoStream, "idle", NoLocals, None, <<>>, <<>>,
                <<>>, NoServer) }

InitPair ==
    /\ kind = "messages"
    /\ state \in { Uninitialized(r) :
          r \in { GetChannelMessagesRequest_new(PairClient),
                  GetChannelMessagesRequest_private(
                      GetChannelMessagesRequest_after(
                          GetChannelMessagesRequest_new(PairClient), Utc(0)),
                      TRUE) } }
    /\ pc = "loop"
    /\ locals = NoLocals
    /\ inflight = None
    /\ requests = <<>>
    /\ fetches = <<>>
    /\ output = <<>>
    /\ call = NoCall
    /\ dec = NoDecode
    /\ eval = NoEval
    /\ builder = Some(Builder("DeleteMessageRequest", PairClient))
    /\ server \in PairServers
    /\ parked \in { t \in PairTasks :
                      t.pc = "loop" =>
                          ("private" \in DOMAIN t.state.request)
                              = (t.kind = "messages") }

PairResponses(E) ==
    ServerResponses(E) \cup { Response("error", 0, EmptyBody) }

NextPair ==
    \/ Switch
    \/ ChannelMessageStream_Fetch
    \/ /\ pc = "await"
       /\ \E resp \in PairResponses(GetChannelMessagesResponse) :
             ChannelMessageStream_Receive(resp)
    \/ ChannelMessageStream_Begin
    \/ ChannelMessageStream_Yield
    \/ ChannelMessageStream_EndPage
    \/ DocsStream_Fetch
    \/ /\ pc = "await"
       /\ \E resp \in PairResponses(GetDocsResponse) :
             DocsStream_Receive(resp)
    \/ DocsStream_Begin
    \/ DocsStream_Yield
    \/ DocsStream_EndPage
    \/ /\ pc = "idle"
       /\ \E op \in { o \in Operations : o.name = "DeleteMessageRequest" } :
             \E resp \in Responses(op.envelope) : Call(op, resp)

SpecPair == InitPair /\ [][NextPair]_vars

----------------------------------------------------------------------------
(* Decoding one JSON object into a resource record *)

Decode ==
    /\ dec.struct # "none"
    /\ dec.result = None
    /\ dec' = [dec EXCEPT
                 !.result = Some(Deserialize(Records[dec.struct], dec.obj))]
    /\ UNCHANGED <<streamVars, call, eval, builder, server, parked>>

InitDecode ==
    /\ kind = "messages"
    /\ state = NoStream
    /\ pc = "idle"
    /\ locals = NoLocals
    /\ inflight = None
    /\ requests = <<>>
    /\ fetches = <<>>
    /\ output = <<>>
    /\ call = NoCall
    /\ \E name \in DOMAIN Records : \E obj \in Objects(Records[name]) :
          dec = [struct |-> name, obj |-> obj, result |-> None]
    /\ eval = NoEval
    /\ builder = None
    /\ server = NoServer
    /\ parked = NoParked

NextDecode == Decode

SpecDecode == InitDecode /\ [][NextDecode]_vars

----------------------------------------------------------------------------
(* serde: the derived Serialize of a struct.  A value of the struct maps   *)
(* each serialized field to None or Some(json) for an Option field and to  *)
(* a JSON value otherwise; a Vec is the array of its length.  A field      *)
(* without skip_serializing_if is always written, None as null.            *)

JsonNull == <<"null">>

JsonString(s) == <<"string", s>>

JsonArray(n) == <<"array", n>>

SerializeStruct(fields, option, vec, skip) ==
    [fields |-> fields, option |-> option, vec |-> vec, skip |-> skip]

\* skip_serializing_if = "Option::is_none" / "Vec::is_empty"
Skipped(T, v, k) ==
    /\ k \in T.skip
    /\ \/ k \in T.option /\ v[k] = None
       \/ k \in T.vec /\ v[k] = JsonArray(0)

\* serde_json::to_value of a struct: the JSON object, key by key
Serialize(T, v) ==
    [k \in { f \in T.fields : ~Skipped(T, v, f) } |->
        IF k \in T.option
        THEN IF v[k] = None THEN JsonNull ELSE Unwrap(v[k])
        ELSE v[k]]

\* Variant: the reason is written also when it is None.
ServerBanBody_without_skip == SerializeStruct({"reason"}, {"reason"}, {}, {})

\* bans.rs
ServerBanBody == SerializeStruct({"reason"}, {"reason"}, {}, {"reason"})

\* The serialized structs by name: the resource records with their Option
\* fields and the fields that carry skip_serializing_if, then the request
\* bodies.
Serializable ==
    [ChatMessage |->
        SerializeStruct(ChatMessage.declared,
            {"serverId", "channelId", "createdBy", "createdByWebhookId",
             "updatedAt"},
            {"embeds", "replyMessageIds"}, {}),
     ChatEmbedFooter |->
        SerializeStruct(ChatEmbedFooter.declared, {"icon_url"}, {},
                        {"icon_url"}),
     ChatEmbedThumbnail |->
        SerializeStruct(ChatEmbedThumbnail.declared, {}, {}, {}),
     ChatEmbedImage |-> SerializeStruct(ChatEmbedImage.declared, {}, {}, {}),
     ChatEmbedAuthor |->
        SerializeStruct(ChatEmbedAuthor.declared, {"name", "url", "icon_url"},
                        {}, {"name", "url", "icon_url"}),
     ChatEmbedField |-> SerializeStruct(ChatEmbedField.declared, {}, {}, {}),
     ChatEmbed |->
        SerializeStruct(ChatEmbed.declared,
            {"title", "description", "url", "color", "footer", "timestamp",
             "thumbnail", "image", "author"},
            {"fields"}, ChatEmbed.declared),
     ServerChannel |->
        SerializeStruct(ServerChannel.declared,
            {"topic", "updatedAt", "parentId", "categoryId", "archivedBy",
             "archivedAt"}, {}, {}),
     Doc |->
        SerializeStruct(Doc.declared, {"updatedAt", "updatedBy"}, {},
                        {"updatedAt", "updatedBy"}),
     ListItem |->
        SerializeStruct(ListItem.declared,
            {"createdByWebHook", "updatedAt", "updatedBy",
             "parentListItemId", "completedAt", "completedBy", "note"}, {},
            {"createdByWebHook", "updatedAt", "updatedBy",
             "parentListItemId", "completedAt", "completedBy", "note"}),
     ListNote |->
        SerializeStruct(ListNote.declared, {"updatedAt", "updatedBy"}, {},
                        {"updatedAt", "updatedBy"}),
     ListItemSummary |->
        SerializeStruct(ListItemSummary.declared,
            {"createdByWebhookId", "updatedAt", "updatedBy",
             "parentListItemId", "completedAt", "completedBy", "note"}, {},
            {"createdByWebhookId", "updatedAt", "updatedBy",
             "parentListItemId", "completedAt", "completedBy", "note"}),
     ListNoteSummary |->
        SerializeStruct(ListNoteSummary.declared, {"updatedAt", "updatedBy"},
                        {}, {"updatedAt", "updatedBy"}),
     ForumThread |->
        SerializeStruct(ForumThread.declared,
            {"title", "content", "createdByWebhookId", "updatedAt"}, {},
            {"title", "content", "createdByWebhookId", "updatedAt"}),
     ServerMemberBan |->
        SerializeStruct(ServerMemberBan.declared, {"reason"}, {}, {}),
     User |-> SerializeStruct(User.declared, {"avatar", "banner"}, {}, {}),
     ServerMember |->
        SerializeStruct(ServerMember.declared, {"nickname"}, {"roleIds"}, {}),
     UserSummary |-> SerializeStruct(UserSummary.declared, {"avatar"}, {}, {}),
     ServerMemberSummary |->
        SerializeStruct(ServerMemberSummary.declared, {}, {"roleIds"}, {}),
     Reaction |->
        SerializeStruct(Reaction.declared, {"serverId", "createdByWebhookId"},
                        {}, {}),
     ServerBanBody |-> ServerBanBody,
     CreateChannelRequest |->
        SerializeStruct({"name", "topic", "isPublic", "type", "serverId",
                         "groupId", "categoryId"},
                        {"topic", "isPublic", "groupId", "categoryId"}, {},
                        {"topic", "isPublic", "groupId", "categoryId"}),
     CreateDocBody |-> SerializeStruct({"title", "content"}, {}, {}, {}),
     UpdateDocBody |-> SerializeStruct({"title", "content"}, {}, {}, {}),
     CreateThreadBody |-> SerializeStruct({"title", "content"}, {}, {}, {}),
     CreateListItemBody |->
        SerializeStruct({"message", "note"}, {"note"}, {}, {"note"}),
     UpdateListItemBody |->
        SerializeStruct({"message", "note"}, {"note"}, {}, {"note"}),
     UpdateNicknameRequestData |-> SerializeStruct({"nickname"}, {}, {}, {}),
     CreateMessageRequest |->
        SerializeStruct({"isPrivate", "isSilent", "replyMessageIds",
                         "content", "embeds"},
                        {"isPrivate", "isSilent"},
                        {"replyMessageIds", "embeds"},
                        {"isPrivate", "isSilent", "replyMessageIds",
                         "embeds"}),
     UpdateMessageRequestBody |->
        SerializeStruct({"content", "embeds"}, {}, {"embeds"}, {"embeds"}),
     MemberXpBody |-> SerializeStruct({"amount"}, {}, {}, {}),
     RoleXpBody |-> SerializeStruct({"amount"}, {}, {}, {})]

\* The values tried for a struct: every Option field None or Some, every
\* Vec empty or not.
StructValues(T) ==
    { [k \in T.fields |->
          IF k \in T.option
          THEN IF k \in none THEN None ELSE Some(JsonString("x"))
          ELSE IF k \in T.vec
          THEN IF k \in empty THEN JsonArray(0) ELSE JsonArray(1)
          ELSE JsonString("v")] :
        none \in SUBSET T.option, empty \in SUBSET T.vec }

\* The body that ServerBanRequest::send gives to json()
ServerBanBody_new(reason) ==
    [reason |-> IF IsSome(reason) THEN Some(JsonString(Unwrap(reason)))
                ELSE None]

ServerBanRequest_body(req) ==
    Serialize(ServerBanBody, ServerBanBody_new(req.reason))

----------------------------------------------------------------------------
(* Identifiers.  A text is the sequence of its characters.  The integer    *)
(* primitive is scaled down: u32_MAX stands for u32::MAX, small enough for *)
(* a text of MaxTextLen digits to overflow.  The UUID is scaled to two     *)
(* groups of one hexadecimal digit: "a-0" is its hyphenated form, "a0" its *)
(* simple form, and the prefix urn:uuid: is one character of a text.       *)

MaxTextLen == 3

u32_MAX == 11

IdTypes ==
    [ChannelId |-> "Uuid", ListId |-> "Uuid", MessageId |-> "Uuid",
     CategoryId |-> "u32", DocId |-> "u32", ForumId |-> "u32",
     EmoteId |-> "u32", RoleId |-> "u32",
     GroupId |-> "String", UserId |-> "String", ServerId |-> "String",
     WebhookId |-> "String"]

DecDigits == <<"0", "1", "2", "3", "4", "5", "6", "7", "8", "9">>

HexLower == DecDigits \o <<"a", "b", "c", "d", "e", "f">>

HexUpper == DecDigits \o <<"A", "B", "C", "D", "E", "F">>

\* char::to_digit: the value of a digit of the radix, None for other chars
to_digit(c, radix) ==
    LET found == { i \in 1..radix :
                     \/ HexLower[i] = c
                     \/ HexUpper[i] = c }
    IN  IF found = {} THEN None ELSE Some((CHOOSE i \in found : TRUE) - 1)

\* the loop of from_str_radix: checked_mul(10), then checked_add(digit)
RECURSIVE u32_digits(_, _)
u32_digits(acc, text) ==
    IF text = <<>> THEN Ok(acc)
    ELSE LET d == to_digit(Head(text), 10) IN
         IF ~IsSome(d) THEN Err("InvalidDigit")
         ELSE IF acc * 10 > u32_MAX THEN Err("PosOverflow")
         ELSE IF acc * 10 + Unwrap(d) > u32_MAX THEN Err("PosOverflow")
         ELSE u32_digits(acc * 10 + Unwrap(d), Tail(text))

\* <u32 as FromStr>::from_str: one leading "+" is allowed, "-" is no digit
u32_from_str(text) ==
    IF text = <<>> THEN Err("Empty")
    ELSE IF text \in { <<"+">>, <<"-">> } THEN Err("InvalidDigit")
    ELSE IF Head(text) = "+" THEN u32_digits(0, Tail(text))
    ELSE u32_digits(0, text)

\* <u32 as Display>::fmt
RECURSIVE u32_fmt(_)
u32_fmt(n) ==
    IF n < 10 THEN <<DecDigits[n + 1]>>
    ELSE u32_fmt(n \div 10) \o <<DecDigits[(n % 10) + 1]>>

\* the digits of a UUID text without its punctuation
Uuid_hex(text) ==
    IF \A i \in 1..Len(text) : IsSome(to_digit(text[i], 16))
    THEN Ok([i \in 1..Len(text) |-> Unwrap(to_digit(text[i], 16))])
    ELSE Err("InvalidCharacter")

\* Uuid::from_str: the simple, the hyphenated and the URN form, in either
\* case of the letters
Uuid_from_str(text) ==
    LET body == IF text # <<>> /\ Head(text) = "urn:uuid:"
                THEN Tail(text) ELSE text
    IN  IF Len(body) = 2 /\ Head(text) # "urn:uuid:" THEN Uuid_hex(body)
        ELSE IF Len(body) = 3 /\ body[2] = "-"
        THEN Uuid_hex(<<body[1], body[3]>>)
        ELSE Err("InvalidUuid")

\* Variant: only the first group is written.
Uuid_fmt_first_group(u) == <<HexLower[u[1] + 1]>>

\* <Uuid as Display>::fmt: hyphenated, lower case
Uuid_fmt(u) == <<HexLower[u[1] + 1], "-", HexLower[u[2] + 1]>>

\* impl FromStr for each identifier type
FromStr(T, text) ==
    CASE IdTypes[T] = "Uuid" -> Uuid_from_str(text)
      [] IdTypes[T] = "u32" -> u32_from_str(text)
      [] IdTypes[T] = "String" -> Ok(text)

\* impl Display for each identifier type
Display(T, id) ==
    CASE IdTypes[T] = "Uuid" -> Uuid_fmt(id)
      [] IdTypes[T] = "u32" -> u32_fmt(id)
      [] IdTypes[T] = "String" -> id

\* Variant: the identifier's text is compared with the other text.
PartialEq_str_by_text(T, id, other) == Display(T, id) = other

\* impl PartialEq<str> for each identifier type
PartialEq_str(T, id, other) ==
    IF IdTypes[T] = "String" THEN id = other
    ELSE LET parsed == FromStr(T, other) IN
         IF ~parsed.ok THEN FALSE ELSE id = parsed.value

\* The texts a caller compares with or parses
TextChars == {"0", "1", "a", "A", "-", "+"}

Texts ==
    UNION { [1..n -> TextChars] : n \in 0..MaxTextLen }
    \cup { <<"urn:uuid:", "A", "-", "0">>, <<"urn:uuid:", "a", "0">> }

\* The identifiers of a type
Ids(T) ==
    CASE IdTypes[T] = "Uuid" -> [1..2 -> {0, 1, 10}]
      [] IdTypes[T] = "u32" -> 0..u32_MAX
      [] IdTypes[T] = "String" ->
            { t \in Texts : Len(t) <= 1 } \cup { <<"+", "1">>, <<"0", "1">> }

----------------------------------------------------------------------------
(* The user type of the two user records.  Here a wire object maps each of *)
(* its keys to its value.                                                  *)

\* enum UserType with rename_all = "snake_case"
UserType_deserialize(token) ==
    CASE token = "bot" -> Ok("Bot")
      [] token = "user" -> Ok("User")
      [] OTHER -> Err("unknown variant")

default_usertype == "User"

\* The wire key of the field user_type: UserSummary renames it, User does not
user_type_key == [User |-> "user_type", UserSummary |-> "type"]

\* the derived Deserialize of User and UserSummary, and the user type of
\* the record it builds
Deserialize_user_type(name, obj) ==
    IF ~Deserialize(Records[name], DOMAIN obj) THEN Err("JsonError")
    ELSE IF user_type_key[name] \in DOMAIN obj
    THEN LET parsed == UserType_deserialize(obj[user_type_key[name]]) IN
         IF parsed.ok THEN parsed ELSE Err("JsonError")
    ELSE Ok(default_usertype)

\* The wire objects of a user record: its required keys, and the keys
\* `type` and `user_type` absent or present with a token
UserObjects(name) ==
    LET tokens == {"absent", "bot", "user", "admin"} IN
    { [k \in Records[name].required
             \cup (IF t = "absent" THEN {} ELSE {"type"})
             \cup (IF u = "absent" THEN {} ELSE {"user_type"}) |->
          IF k = "type" THEN t ELSE IF k = "user_type" THEN u ELSE "x"] :
      t \in tokens, u \in tokens }

----------------------------------------------------------------------------
(* The URL of a page request.  A URL is its path and its query, None or    *)
(* the text after the "?"; a text is the sequence of its parts: keys,      *)
(* values and the characters "=", "&" and "?".                             *)

\* Option::unwrap_or_default of url.query()
unwrap_or_default(query) == IF IsSome(query) THEN Unwrap(query) ELSE <<>>

\* format!("{}key={value}&", url.query().unwrap_or_default())
format_query(query, key, value) ==
    unwrap_or_default(query) \o <<key, "=", value, "&">>

\* the URL built by GetChannelMessagesRequest::send_part
GetChannelMessagesRequest_url(req) ==
    LET q1 == IF IsSome(req.before)
              THEN Some(<<"before", "=", ToString(Unwrap(req.before)), "&">>)
              ELSE None
        q2 == IF IsSome(req.after)
              THEN Some(format_query(q1, "after",
                                     ToString(Unwrap(req.after))))
              ELSE q1
        q3 == IF IsSome(req.limit)
              THEN Some(format_query(q2, "limit",
                                     ToString(Unwrap(req.limit))))
              ELSE q2
        q4 == IF IsSome(req.private)
              THEN Some(format_query(q3, "private",
                            IF Unwrap(req.private) THEN "true" ELSE "false"))
              ELSE q3
    IN  [path |-> "/channels/{}/messages", query |-> q4]

\* the URL built by GetDocsRequest::send_part
GetDocsRequest_url(req) ==
    LET q1 == IF IsSome(req.before)
              THEN Some(<<"before", "=", ToString(Unwrap(req.before)), "&">>)
              ELSE None
        q2 == IF IsSome(req.limit)
              THEN Some(format_query(q1, "limit",
                                     ToString(Unwrap(req.limit))))
              ELSE q1
    IN  [path |-> "/channels/{}/docs", query |-> q2]

\* Url::as_str
Url_as_str(url) ==
    <<url.path>>
    \o (IF IsSome(url.query) THEN <<"?">> \o Unwrap(url.query) ELSE <<>>)

\* The page requests send_part may be called on: every combination of set
\* and unset parameters
UrlRequests ==
    LET cursors == {None, Some(to_rfc3339_opts_Millis(Utc(TicksPerMs)))} IN
    { [client |-> Client_new, before |-> b, after |-> a, limit |-> l,
       private |-> p] :
        b \in cursors, a \in cursors, l \in {None, Some(1)},
        p \in {None, Some(TRUE), Some(FALSE)} }
    \cup { [client |-> Client_new, before |-> b, limit |-> l] :
             b \in cursors, l \in {None, Some(1)} }

----------------------------------------------------------------------------
(* Pure functions of the library, each called once on one argument *)

\* The chains of `.reason(r)` calls a caller may write before send
ReasonCalls ==
    { <<>> } \cup { <<r>> : r \in Reasons }
    \cup { <<r1, r2>> : r1 \in Reasons, r2 \in Reasons }

RECURSIVE ServerBanRequest_chain(_, _)
ServerBanRequest_chain(req, rs) ==
    IF rs = <<>> THEN req
    ELSE ServerBanRequest_chain(ServerBanRequest_reason(req, Head(rs)),
                                Tail(rs))

\* The timestamps a caller gives: instants before and after the epoch, on
\* and between whole milliseconds, in zones west of, at and east of UTC
CursorTimes ==
    { [instant |-> t, offset |-> o * TicksPerMs] :
        t \in -(MaxTick + 1)..(MaxTick + 1), o \in {-1, 0, 2} }

\* The created timestamps of the items of a page
CreatedTimes == { Utc(t) : t \in -(MaxTick + 1)..(MaxTick + 1) }

Apply(fn, arg) ==
    CASE fn = "Serialize" -> Serialize(Serializable[arg.struct], arg.value)
      [] fn = "ServerBanRequest_body" ->
            ServerBanRequest_body(
                ServerBanRequest_chain(ServerBanRequest_new(Client_new),
                                       arg))
      [] fn = "GuildedClient_new" -> GuildedClient_new(arg)
      [] fn = "GetChannelMessagesRequest_before" ->
            GetChannelMessagesRequest_before(
                GetChannelMessagesRequest_new(Client_new), arg)
      [] fn = "GetChannelMessagesRequest_after" ->
            GetChannelMessagesRequest_after(
                GetChannelMessagesRequest_new(Client_new), arg)
      [] fn = "GetDocsRequest_before" ->
            GetDocsRequest_before(GetDocsRequest_new(Client_new), arg)
      [] fn = "ChannelMessageStream_NextRequest" ->
            ChannelMessageStream_NextRequest(Client_new, arg.after,
                                             arg.private, arg.last_message)
      [] fn = "DocsStream_NextRequest" ->
            DocsStream_NextRequest(Client_new, arg)
      [] fn = "FromStr" -> FromStr(arg.type, arg.text)
      [] fn = "send_part_url" ->
            IF "private" \in DOMAIN arg
            THEN GetChannelMessagesRequest_url(arg)
            ELSE GetDocsRequest_url(arg)
      [] fn = "Deserialize_user_type" ->
            Deserialize_user_type(arg.struct, arg.obj)
      [] fn = "Display" -> Display(arg.type, arg.id)
      [] fn = "PartialEq_str" -> PartialEq_str(arg.type, arg.id, arg.text)

Evaluate ==
    /\ eval.fn # "none"
    /\ eval.result = None
    /\ eval' = [eval EXCEPT !.result = Some(Apply(eval.fn, eval.arg))]
    /\ UNCHANGED <<streamVars, call, dec, builder, server, parked>>

InitPure ==
    /\ kind = "messages"
    /\ state = NoStream
    /\ pc = "idle"
    /\ locals = NoLocals
    /\ inflight = None
    /\ requests = <<>>
    /\ fetches = <<>>
    /\ output = <<>>
    /\ call = NoCall
    /\ dec = NoDecode
    /\ \/ \E name \in DOMAIN Serializable :
             \E v \in StructValues(Serializable[name]) :
                eval = [fn |-> "Serialize",
                        arg |-> [struct |-> name, value |-> v],
                        result |-> None]
       \/ \E rs \in ReasonCalls :
             eval = [fn |-> "ServerBanRequest_body", arg |-> rs,
                     result |-> None]
       \/ \E token \in Tokens :
             eval = [fn |-> "GuildedClient_new", arg |-> token,
                     result |-> None]
       \/ \E fn \in {"GetChannelMessagesRequest_before",
                      "GetChannelMessagesRequest_after",
                      "GetDocsRequest_before"} :
             \E dt \in CursorTimes :
                eval = [fn |-> fn, arg |-> dt, result |-> None]
       \/ \E last \in CreatedTimes :
             \E after \in {None, Some(to_rfc3339_opts_Millis(Utc(0)))} :
                \E private \in {None, Some(TRUE)} :
                   eval = [fn |-> "ChannelMessageStream_NextRequest",
                           arg |-> [after |-> after, private |-> private,
                                    last_message |-> last],
                           result |-> None]
       \/ \E last \in CreatedTimes :
             eval = [fn |-> "DocsStream_NextRequest", arg |-> last,
                     result |-> None]
       \/ \E name \in DOMAIN user_type_key : \E obj \in UserObjects(name) :
             eval = [fn |-> "Deserialize_user_type",
                     arg |-> [struct |-> name, obj |-> obj],
                     result |-> None]
       \/ \E req \in UrlRequests :
             eval = [fn |-> "send_part_url", arg |-> req, result |-> None]
       \/ \E T \in DOMAIN IdTypes : \E text \in Texts :
             eval = [fn |-> "FromStr", arg |-> [type |-> T, text |-> text],
                     result |-> None]
       \/ \E T \in DOMAIN IdTypes : \E id \in Ids(T) :
             eval = [fn |-> "Display", arg |-> [type |-> T, id |-> id],
                     result |-> None]
       \/ \E T \in DOMAIN IdTypes : \E id \in Ids(T) : \E text \in Texts :
             eval = [fn |-> "PartialEq_str",
                     arg |-> [type |-> T, id |-> id, text |-> text],
                     result |-> None]
    /\ builder = None
    /\ server = NoServer
    /\ parked = NoParked

NextPure == Evaluate

SpecPure == InitPure /\ [][NextPure]_vars

----------------------------------------------------------------------------
(* What the consumer has seen, and what is left of the page being drained *)

RECURSIVE OkValues(_)
OkValues(out) ==
    IF out = <<>> THEN <<>>
    ELSE IF Head(out).ok THEN <<Head(out).value>> \o OkValues(Tail(out))
    ELSE OkValues(Tail(out))

ErrorCount(out) == Cardinality({ i \in 1..Len(out) : ~out[i].ok })

Remaining ==
    IF pc = "for"
    THEN IF kind = "messages" THEN locals.messages ELSE locals.docs
    ELSE IF pc = "loop" /\ state.tag = "Iterating"
    THEN IF kind = "messages" THEN state.messages ELSE state.docs
    ELSE <<>>

CreatedAt(item) == IF kind = "messages" THEN item.created_at ELSE item.created

PageSizes == [i \in 1..Len(fetches) |-> IF fetches[i].ok THEN Len(fetches[i].value) ELSE -1]

LastFetchFailed == fetches # <<>> /\ ~fetches[Len(fetches)].ok

LastPageEmpty ==
    /\ fetches # <<>>
    /\ fetches[Len(fetches)].ok
    /\ fetches[Len(fetches)].value = <<>>

----------------------------------------------------------------------------
(* C1: k non-empty pages followed by an empty page: the stream produces    *)
(* exactly the items of the k pages and ends, after exactly k+1 requests;  *)
(* no request follows the empty page, and a stream that ended without an   *)
(* error ended on an empty page.                                           *)
C1_EndsOnEmptyPage ==
    /\ \A i \in 1..Len(fetches) :
          (fetches[i].ok /\ fetches[i].value = <<>>) =>
              /\ i = Len(fetches)
              /\ Len(requests) = i
              /\ \A j \in 1..(i - 1) : fetches[j].ok /\ fetches[j].value # <<>>
    /\ (pc = "done" /\ ErrorCount(output) = 0) =>
          /\ LastPageEmpty
          /\ Len(requests) = Len(fetches)
          /\ Len(output) = Len(Concat(Pages))
          /\ OkValues(output) = Concat(Pages)

C1_Witness ==
    /\ pc = "done"
    /\ PageSizes = <<2, 2, 0>>
    /\ Len(output) = 4
    /\ ErrorCount(output) = 0
    /\ Len(requests) = 3

(* C2: the items produced, followed by what is left of the page being      *)
(* drained, are the concatenation of the fetched pages in fetch order.     *)
C2_PageOrder == OkValues(output) \o Remaining = Concat(Pages)

C2_Witness ==
    /\ pc = "done"
    /\ PageSizes = <<2, 2, 0>>
    /\ Len(output) = 4
    /\ ErrorCount(output) = 0
    /\ CreatedAt(output[1].value) # CreatedAt(output[2].value)
    /\ CreatedAt(output[3].value) # CreatedAt(output[4].value)

(* C3, as stated: the `before` cursor of every page request after the      *)
(* first is the creation timestamp of the last item of the page before.    *)
C3_CursorIsLastTimestamp ==
    \A i \in 2..Len(requests) :
        /\ IsSome(requests[i].before)
        /\ parse_DateTime_Utc(Unwrap(requests[i].before))
             = CreatedAt(Pages[i - 1][Len(Pages[i - 1])])

(* C3, amended: the `before` cursor of every page request after the first  *)
(* is the creation timestamp of the last item of the page before it,       *)
(* truncated to millisecond precision and written as UTC RFC3339 text.     *)
C3_CursorIsLastTimestampMillis ==
    \A i \in 2..Len(requests) :
        /\ Pages[i - 1] # <<>>
        /\ requests[i].before =
             Some(to_rfc3339_opts_Millis(
                      CreatedAt(Pages[i - 1][Len(Pages[i - 1])])))

C3_Witness ==
    /\ Len(requests) >= 2
    /\ Len(Pages[1]) = 2
    /\ to_rfc3339_opts_Millis(CreatedAt(Pages[1][1]))
         # to_rfc3339_opts_Millis(CreatedAt(Pages[1][2]))
    /\ CreatedAt(Pages[1][2]).instant % TicksPerMs # 0

C5_PrefixThenError ==
    LastFetchFailed =>
        /\ \A j \in 1..(Len(output) - 1) : output[j].ok
        /\ [j \in 1..(Len(output) - 1) |-> output[j].value] = Concat(Pages)

C5_Witness ==
    /\ LastFetchFailed
    /\ PageSizes = <<2, 1, -1>>
    /\ Len(output) = 4
    /\ output[4].error.source = "decode"

----------------------------------------------------------------------------
Is2xx(status) == status >= 200 /\ status <= 299

(* C6: every builder's `send` returns an error for a non-2xx response.     *)
C6_Non2xxIsError ==
    (call.name # "none" /\ call.single /\ call.resp.net = "ok"
       /\ ~Is2xx(call.resp.status))
    => ~call.result.ok

C8_UnknownEnvelopeKeyFails ==
    (call.name # "none" /\ call.decodes /\ call.resp.net = "ok"
       /\ Is2xx(call.resp.status) /\ call.resp.body.json
       /\ ~(call.resp.body.keys \subseteq Unwrap(call.envelope).declared))
    => /\ ~call.result.ok
       /\ call.result.error.source = "decode"

(* C9: for every resource record, an object with all declared fields and   *)
(* one undeclared field fails to decode.                                   *)
C9_ExtraFieldFails ==
    (dec.struct # "none" /\ IsSome(dec.result)
       /\ dec.obj = Records[dec.struct].declared \cup {"extra"})
    => Unwrap(dec.result) = FALSE

(* C10: the error of a decode failure of a 2xx body has another variant    *)
(* than the error the same call returns for an error status or for a       *)
(* request that got no response.                                           *)
C10_DecodeErrorHasOwnVariant ==
    (call.name # "none" /\ call.resp.net = "ok" /\ Is2xx(call.resp.status)
       /\ ~call.result.ok /\ call.result.error.source = "decode")
    => /\ call.result.error.variant
            # Send(call.name, Response("ok", 404, call.resp.body)).error.variant
       /\ call.result.error.variant
            # Send(call.name, Response("error", 0, EmptyBody)).error.variant

----------------------------------------------------------------------------
Evaluated(fn) == eval.fn = fn /\ IsSome(eval.result)

(* C11: the body of a ban creation holds the key `reason` with the value   *)
(* of the last `.reason(r)` call, and no key `reason` at all when reason   *)
(* was never called.                                                       *)
C11_ReasonInBody ==
    Evaluated("ServerBanRequest_body") =>
        LET body == Unwrap(eval.result)
            rs == eval.arg IN
        IF rs = <<>> THEN DOMAIN body = {}
        ELSE /\ DOMAIN body = {"reason"}
             /\ body["reason"] = JsonString(rs[Len(rs)])

C11_Witness ==
    /\ Evaluated("ServerBanRequest_body")
    /\ eval.arg = <<"spam">>
    /\ Unwrap(eval.result)["reason"] = JsonString("spam")

(* C12: serializing a record or a request body whose Option field is None  *)
(* gives an object without that field's key, and no null value.            *)
C12_NoneIsOmitted ==
    Evaluated("Serialize") =>
        LET T == Serializable[eval.arg.struct]
            object == Unwrap(eval.result) IN
        /\ \A k \in T.option :
              eval.arg.value[k] = None => k \notin DOMAIN object
        /\ \A k \in DOMAIN object : object[k] # JsonNull

(* C13: every request of a paginated stream, the follow-up page requests   *)
(* included, goes through the handle of the caller's request and carries   *)
(* the header Authorization: Bearer t of the facade's token t.             *)
C13_EveryRequestIsAuthorized ==
    \A i \in 1..Len(requests) :
        /\ requests[i].client = requests[1].client
        /\ \E t \in Tokens :
              /\ requests[i].client = GuildedClient_new(t).value
              /\ Headers(requests[i]) =
                     [AUTHORIZATION |-> [bytes |-> format_Bearer(t)]]

C13_Witness ==
    /\ Len(requests) = 3
    /\ IsSome(requests[3].before)
    /\ Headers(requests[3]) =
           [AUTHORIZATION |-> [bytes |-> format_Bearer(<<"a">>)]]

C15_NothingSentBeforeDriven ==
    /\ IsSome(builder) => requests = <<>>
    /\ (call = NoCall /\ pc \in {"idle", "loop", "start"}) => requests = <<>>
    /\ Len(requests) <= 1

C15_Witness ==
    /\ kind = "messages"
    /\ pc = "loop"
    /\ state.tag = "Uninitialized"
    /\ IsSome(state.request.before)
    /\ IsSome(state.request.private)
    /\ requests = <<>>

C20_ListStreamsAreSingleShot ==
    kind \in ListStreams =>
        /\ Len(requests) <= 1
        /\ Len(fetches) <= 1
        /\ pc \in {"await", "for", "done"} => Len(requests) = 1
        /\ pc = "for" =>
              /\ fetches[1].ok
              /\ output = [i \in 1..Len(output) |-> Ok(fetches[1].value[i])]
              /\ OkValues(output) \o locals.items = fetches[1].value
        /\ pc = "done" =>
              IF fetches[1].ok
              THEN output =
                     [i \in 1..Len(fetches[1].value) |-> Ok(fetches[1].value[i])]
              ELSE output = <<Err(fetches[1].error)>>

C20_Witness ==
    /\ kind = "GetServerBansRequest"
    /\ pc = "done"
    /\ Len(requests) = 1
    /\ Len(output) = MaxPageLen
    /\ output[1].ok
    /\ output[1].value # output[2].value

(* C17: the cursor stored by `before` and `after` for a timestamp in any   *)
(* zone, and the `before` cursor a stream derives from the created         *)
(* timestamp of the last item, is the text of the same instant in UTC,     *)
(* cut (not rounded) to whole milliseconds, with the zone written Z.       *)
C17_CursorIsUtcMillis ==
    LET Cursor(dt) ==
            Some([millis |-> CHOOSE m \in -(MaxTick + 2)..(MaxTick + 2) :
                               /\ m * TicksPerMs <= dt.instant
                               /\ dt.instant < (m + 1) * TicksPerMs,
                  zone |-> 0])
    IN
    /\ Evaluated("GetChannelMessagesRequest_before") =>
          Unwrap(eval.result).before = Cursor(eval.arg)
    /\ Evaluated("GetChannelMessagesRequest_after") =>
          Unwrap(eval.result).after = Cursor(eval.arg)
    /\ Evaluated("GetDocsRequest_before") =>
          Unwrap(eval.result).before = Cursor(eval.arg)
    /\ Evaluated("ChannelMessageStream_NextRequest") =>
          Unwrap(eval.result).before = Cursor(eval.arg.last_message)
    /\ Evaluated("DocsStream_NextRequest") =>
          Unwrap(eval.result).before = Cursor(eval.arg)

C17_Witness ==
    /\ Evaluated("GetChannelMessagesRequest_before")
    /\ eval.arg.offset # 0
    /\ eval.arg.instant > 0
    /\ eval.arg.instant % TicksPerMs = TicksPerMs - 1
    /\ Unwrap(eval.result).before =
           Some([millis |-> eval.arg.instant \div TicksPerMs, zone |-> 0])

(* C18: for every identifier type and value x, parsing the text that       *)
(* formatting x gives succeeds with x, and formatting that again gives the *)
(* same text; for the string-backed types, parsing any text and formatting *)
(* the identifier gives the text back unchanged.                           *)
C18_ParseFormatRoundTrip ==
    /\ Evaluated("Display") =>
          LET T == eval.arg.type
              text == Unwrap(eval.result)
              parsed == FromStr(T, text) IN
          /\ parsed.ok
          /\ parsed.value = eval.arg.id
          /\ Display(T, parsed.value) = text
    /\ (Evaluated("FromStr") /\ IdTypes[eval.arg.type] = "String") =>
          /\ Unwrap(eval.result).ok
          /\ Display(eval.arg.type, Unwrap(eval.result).value) = eval.arg.text

C18_Witness ==
    /\ Evaluated("Display")
    /\ eval.arg.type = "MessageId"
    /\ eval.arg.id = <<10, 1>>
    /\ Unwrap(eval.result) = <<"a", "-", "1">>

(* C19: for the UUID-backed and the integer-backed identifier types,       *)
(* x == s is true exactly when s parses to the primitive of x; a text that *)
(* cannot be parsed compares unequal, and the comparison has no other      *)
(* outcome than true or false.                                             *)
C19_EqStrParses ==
    (Evaluated("PartialEq_str") /\ IdTypes[eval.arg.type] # "String") =>
        LET parsed == FromStr(eval.arg.type, eval.arg.text) IN
        /\ Unwrap(eval.result) \in BOOLEAN
        /\ Unwrap(eval.result) = (parsed.ok /\ parsed.value = eval.arg.id)
        /\ ~parsed.ok => Unwrap(eval.result) = FALSE

C19_Witness ==
    /\ Evaluated("PartialEq_str")
    /\ eval.arg.type = "RoleId"
    /\ eval.arg.id = 1
    /\ eval.arg.text = <<"+", "0", "1">>
    /\ Unwrap(eval.result) = TRUE

(* C21: no operation of the public interface aborts the process: every     *)
(* facade method and every `send` hands a builder, a value or an error     *)
(* value back to its caller.                                               *)
C21_NothingAborts ==
    call # NoCall => "panic" \notin DOMAIN call.result

\* The page requests of a stream that runs alone from `request` and is
\* answered with the fetch results fs
RECURSIVE AloneRequests(_, _, _)
AloneRequests(k, request, fs) ==
    <<request>> \o
    (IF fs = <<>> \/ ~Head(fs).ok \/ Head(fs).value = <<>> THEN <<>>
     ELSE LET page == Head(fs).value
              last == page[Len(page)] IN
          AloneRequests(k,
              IF k = "messages"
              THEN ChannelMessageStream_NextRequest(
                       request.client, request.after, request.private,
                       last.created_at)
              ELSE DocsStream_NextRequest(request.client, last.created),
              Tail(fs)))

\* The items that stream produces
RECURSIVE AloneOutput(_)
AloneOutput(fs) ==
    IF fs = <<>> THEN <<>>
    ELSE IF ~Head(fs).ok THEN <<Err(Head(fs).error)>>
    ELSE [i \in 1..Len(Head(fs).value) |-> Ok(Head(fs).value[i])]
         \o AloneOutput(Tail(fs))

IsPrefix(a, b) == Len(a) <= Len(b) /\ a = SubSeq(b, 1, Len(a))

\* The task t has done what it does when it runs alone with its responses
AsAlone(t) ==
    IF t.pc = "idle"
    THEN /\ t.output = <<>>
         /\ t.fetches = <<>>
         /\ IF call = NoCall THEN t.requests = <<>>
            ELSE /\ t.requests =
                      <<Builder("DeleteMessageRequest", PairClient).request>>
                 /\ call.result = Send(call.name, call.resp)
    ELSE /\ t.requests # <<>> =>
               IsPrefix(t.requests,
                        AloneRequests(t.kind, t.requests[1], t.fetches))
         /\ Len(t.requests) \in {Len(t.fetches), Len(t.fetches) + 1}
         /\ IsPrefix(t.output, AloneOutput(t.fetches))
         /\ (t.pc \in {"done", "await"} \/ t.state.tag = "Uninitialized") =>
               t.output = AloneOutput(t.fetches)
         /\ \A i \in 1..Len(t.fetches) :
               t.fetches[i].ok =>
                  \A j \in 1..Len(t.fetches[i].value) :
                     t.fetches[i].value[j].id \in DOMAIN t.server.created

(* C22: when a send and paginated streams run interleaved over clones of   *)
(* one transport handle, the requests and the items of each depend on its  *)
(* own parameters and its own responses only: in every interleaving they   *)
(* are those of the same task running alone.                               *)
C22_TasksDoNotInterfere ==
    parked # NoParked => AsAlone(Running) /\ AsAlone(parked)

C22_Witness ==
    /\ parked # NoParked
    /\ kind = "messages"
    /\ parked.kind = "messages"
    /\ Len(requests) = 2
    /\ Len(parked.requests) = 2
    /\ requests[2].before # parked.requests[2].before
    /\ Len(output) = 1
    /\ Len(parked.output) = 1

(* C23: for both user records, a wire object whose `type` field is `bot`   *)
(* decodes to user type Bot, one whose `type` field is `user` decodes to   *)
(* User, and one without the field decodes to User.                        *)
C23_UserTypeFromWire ==
    (Evaluated("Deserialize_user_type")
        /\ "user_type" \notin DOMAIN eval.arg.obj) =>
        LET obj == eval.arg.obj
            result == Unwrap(eval.result) IN
        /\ ("type" \in DOMAIN obj /\ obj["type"] = "bot") => result = Ok("Bot")
        /\ ("type" \in DOMAIN obj /\ obj["type"] = "user") =>
              result = Ok("User")
        /\ "type" \notin DOMAIN obj => result = Ok("User")

(* C24: a paginated stream is never at its loop head in the Transition     *)
(* placeholder state: after a fetch, after a page that was not empty and   *)
(* after an empty page the state has been replaced by Uninitialized or     *)
(* Iterating, or the loop has been left.  A stream the consumer drops      *)
(* takes no further step, so every state it is dropped in is one of these. *)
C24_NeverTransitionAtLoopHead ==
    /\ pc = "loop" => state.tag \in {"Uninitialized", "Iterating"}
    /\ state.tag = "Transition" => pc \in {"await", "for", "done"}

C24_Witness ==
    /\ pc = "done"
    /\ state = Transition
    /\ Len(fetches) = 2
    /\ fetches[1].ok
    /\ ~fetches[2].ok
    /\ Len(output) = 2

(* C25: the stream starts in the fetching state with the caller's original *)
(* request, and for every caller configuration the first page request     *)
(* carries no `before` cursor.                                             *)
C25_FirstRequestHasNoBefore ==
    /\ (requests = <<>> /\ pc = "loop") => state.tag = "Uninitialized"
    /\ requests # <<>> => requests[1].before = None

(* C25, amended: the stream starts in the fetching state with the caller's *)
(* original request and its first page request is that request, with the  *)
(* caller's `before` cursor when the caller set one; every page request    *)
(* after the first carries a `before` cursor.                              *)
C25_FirstRequestIsCallersRequest ==
    /\ []((requests = <<>> /\ pc = "loop") => state.tag = "Uninitialized")
    /\ [](\A i \in 2..Len(requests) : IsSome(requests[i].before))
    /\ [][(requests = <<>> /\ requests' # <<>>) =>
             requests' = <<state.request>>]_vars

C25_Witness ==
    /\ kind = "messages"
    /\ Len(requests) = 2
    /\ IsSome(requests[1].before)
    /\ IsSome(requests[2].before)
    /\ requests[1].before # requests[2].before

(* C26: for every combination of set and unset optional parameters the URL *)
(* of a page request is well-formed: no query part when none is set, and   *)
(* otherwise each set parameter once as key=value, no unset parameter, one *)
(* "?", no empty segment between two "&" and no trailing "&".              *)
C26_UrlIsWellFormed ==
    Evaluated("send_part_url") =>
        LET req == eval.arg
            url == Url_as_str(Unwrap(eval.result))
            params == {"before", "after", "limit", "private"} \cap DOMAIN req
            set == { k \in params : IsSome(req[k]) }
            At(text) == { i \in 1..Len(url) : url[i] = text } IN
        /\ set = {} => url = <<Unwrap(eval.result).path>>
        /\ Cardinality(At("?")) = (IF set = {} THEN 0 ELSE 1)
        /\ \A k \in set :
              /\ Cardinality(At(k)) = 1
              /\ \A i \in At(k) : i + 2 <= Len(url) /\ url[i + 1] = "="
        /\ \A k \in params \ set : At(k) = {}
        /\ \A i \in At("&") : i + 1 \notin At("&")
        /\ url[Len(url)] # "&"

(* C27: in the message stream every page request carries the `after`       *)
(* bound and the `private` flag of the first request, absent when the      *)
(* caller did not set them: page requests differ in their `before` cursor  *)
(* only.  The stored `after` text is always the millisecond UTC text that  *)
(* `after` wrote, so reading it back does not fail.                        *)
C27_AfterAndPrivateAreKept ==
    kind = "messages" =>
        /\ \A i \in 1..Len(requests) :
              /\ requests[i].after = requests[1].after
              /\ requests[i].private = requests[1].private
              /\ [requests[i] EXCEPT !.before = None]
                     = [requests[1] EXCEPT !.before = None]
              /\ IsSome(requests[i].after) =>
                    /\ Unwrap(requests[i].after).zone = 0
                    /\ to_rfc3339_opts_Millis(
                           parse_DateTime_Utc(Unwrap(requests[i].after)))
                           = Unwrap(requests[i].after)
        /\ (state.tag = "Iterating" /\ requests # <<>>) =>
              /\ state.after = requests[1].after
              /\ state.private = requests[1].private

C27_Witness ==
    /\ kind = "messages"
    /\ Len(requests) = 3
    /\ IsSome(requests[3].after)
    /\ requests[3].private = Some(TRUE)
    /\ requests[2].before # requests[3].before

(* C28: against an endpoint that answers each request with at most `limit` *)
(* of the newest items strictly older than the request's `before` cursor,  *)
(* newest first, the `before` cursors of successive page requests are      *)
(* strictly decreasing and the stream eventually ends.                     *)
C28_CursorsDecreaseAndStreamEnds ==
    (server # NoServer /\ server.newest_first) =>
        /\ [](\A i \in 1..Len(requests) : \A j \in 1..Len(requests) :
                (i < j /\ IsSome(requests[i].before)) =>
                    /\ IsSome(requests[j].before)
                    /\ Unwrap(requests[j].before).millis
                           < Unwrap(requests[i].before).millis)
        /\ <>(pc = "done")

C28_Witness ==
    /\ server # NoServer
    /\ server.newest_first
    /\ pc = "done"
    /\ Len(requests) = 3
    /\ Len(output) = 2
    /\ Unwrap(requests[3].before).millis < Unwrap(requests[2].before).millis
    /\ fetches[Len(fetches)] = Ok(<<>>)

(* C29: against an endpoint that answers each request only with items      *)
(* strictly older than the request's `before` cursor, the stream never     *)
(* produces the same item twice.                                           *)
C29_NoItemTwice ==
    server # NoServer =>
        \A i \in 1..Len(output) : \A j \in 1..Len(output) :
            (i # j /\ output[i].ok /\ output[j].ok) =>
                output[i].value.id # output[j].value.id

(* C29, amended: against an endpoint that answers each request only with   *)
(* items strictly older than the request's `before` cursor and orders each *)
(* page newest first, the stream never produces the same item twice.       *)
C29_NoItemTwiceNewestFirst ==
    (server # NoServer /\ server.newest_first) =>
        \A i \in 1..Len(output) : \A j \in 1..Len(output) :
            (i # j /\ output[i].ok /\ output[j].ok) =>
                output[i].value.id # output[j].value.id

C29_Witness ==
    /\ server # NoServer
    /\ server.newest_first
    /\ pc = "done"
    /\ Len(fetches) = 3
    /\ Len(output) = 2
    /\ output[1].value.id # output[2].value.id

(* C30: against an endpoint that answers with the newest items strictly    *)
(* older than the cursor, a stream that ran to its end without a failure   *)
(* has produced every item of the collection older than the caller's       *)
(* initial bound, also when items share a creation timestamp or differ     *)
(* below millisecond precision only.                                       *)
C30_NoItemIsSkipped ==
    (server # NoServer /\ server.newest_first /\ pc = "done"
        /\ ErrorCount(output) = 0) =>
        \A id \in Older(requests[1]) :
            \E i \in 1..Len(output) : output[i].value.id = id

====
